---- MODULE Spec2Model ----
(***************************************************************************)
(* Model of the scrim results pipeline of register/index.js: scoring       *)
(* engine, team detector, and the OCR/manual merge and leaderboard of the  *)
(* admin panel (GET /scrims/:id/results).                                  *)
(*                                                                         *)
(* A JavaScript string is a sequence of one-character strings; a           *)
(* JavaScript object is a record whose DOMAIN holds exactly the            *)
(* properties that are set, so reading a missing property is visible.      *)
(***************************************************************************)
EXTENDS Integers, Sequences, FiniteSets, Bags, TLC

VARIABLES call, ret, teams, scrim_results, scrim_results_manual,
          scoring_json, resp, matchSessions,
          registration_open, bans, memberRoles, requests, now,
          registeredTeams, availableSlots

\* the registration of the scrims: the column registration_open, the table
\* bans, the members that hold the ban role, the requests that wait at an
\* await, and the clock
regVars == <<registration_open, bans, memberRoles, requests, now>>

\* the single-lobby registration of src/index.js
legacyVars == <<registeredTeams, availableSlots>>

lobbyVars == <<regVars, legacyVars>>

vars == <<call, ret, teams, scrim_results, scrim_results_manual,
          scoring_json, resp, matchSessions, lobbyVars>>

dbVars == <<teams, scrim_results, scrim_results_manual, scoring_json, resp,
            matchSessions, lobbyVars>>

(***************************************************************************)
(* Bounds                                                                  *)
(***************************************************************************)
MaxPlace == 10
MaxKills == 3
MaxNames == 3
MaxTeams == 2
MaxMinTagged == 2
MaxLegacySlot == 4

Scrims == {1, 2}

MIN_SLOT == 2
MAX_SLOT == MaxLegacySlot

\* no registration under way: every scrim closed, nobody banned
InitRegIdle ==
  /\ registration_open = [s \in Scrims |-> FALSE]
  /\ bans = {}
  /\ memberRoles = {}
  /\ requests = EmptyBag
  /\ now = 0

\* the state after the module is loaded: no teams, every slot available
InitLegacy ==
  /\ registeredTeams = <<>>
  /\ availableSlots = [i \in 1..(MAX_SLOT - MIN_SLOT + 1) |-> MIN_SLOT + i - 1]

InitLobbyIdle == InitRegIdle /\ InitLegacy

(***************************************************************************)
(* Strings                                                                 *)
(***************************************************************************)
LowerChars == <<"a","b","c","d","e","f","g","h","i","j","k","l","m",
                "n","o","p","q","r","s","t","u","v","w","x","y","z">>
UpperChars == <<"A","B","C","D","E","F","G","H","I","J","K","L","M",
                "N","O","P","Q","R","S","T","U","V","W","X","Y","Z">>

\* the upper-case form of each lower-case letter
UpperOf ==
  [c \in {LowerChars[i] : i \in 1..26} |->
     UpperChars[CHOOSE i \in 1..26 : LowerChars[i] = c]]

\* String.prototype.toUpperCase on one character
UpperChar(c) == IF c \in DOMAIN UpperOf THEN UpperOf[c] ELSE c

toUpperCase(s) == [i \in 1..Len(s) |-> UpperChar(s[i])]

\* the regular expression class \s
IsSpace(c) == c \in {" ", "\t", "\n", "\r"}

\* String.prototype.includes
includes(n, t) ==
  \E i \in 0..(Len(n) - Len(t)) : SubSeq(n, i + 1, i + Len(t)) = t

\* String.prototype.trim
trim(s) ==
  LET keep == {i \in 1..Len(s) : ~IsSpace(s[i])}
  IN IF keep = {} THEN <<>>
     ELSE SubSeq(s, CHOOSE i \in keep : \A j \in keep : i <= j,
                    CHOOSE i \in keep : \A j \in keep : j <= i)

\* obj.k || "" : the property when it is set and non-empty, else ""
PropOrEmpty(obj, k) == IF k \in DOMAIN obj THEN obj[k] ELSE <<>>

Digits == <<"0","1","2","3","4","5","6","7","8","9">>

\* the value of each digit character
DigitVal ==
  [c \in {Digits[i] : i \in 1..10} |->
     (CHOOSE i \in 1..10 : Digits[i] = c) - 1]

\* the regular expression class \d
IsDigit(c) == c \in DOMAIN DigitVal

\* Number(m[1]) on a string of digits
RECURSIVE DigitsToNumber(_)
DigitsToNumber(s) ==
  IF s = <<>> THEN 0
  ELSE 10 * DigitsToNumber(SubSeq(s, 1, Len(s) - 1)) + DigitVal[s[Len(s)]]

AllDigits(s) == \A i \in 1..Len(s) : IsDigit(s[i])


\* JSON / form values other than numbers: null, a boolean, a string;
\* NotANumber stands for undefined (a property that is not set)
JsNull == [num |-> FALSE, lit |-> "null"]
JsBool(b) == [num |-> FALSE, bool |-> b]
JsStr(s) == [num |-> FALSE, str |-> s]

\* x is null or undefined (the left operand ?? gives way for)
Nullish(x) == ~x.num /\ DOMAIN x \in {{"num"}, {"num", "lit"}}

\* Number(x): null is 0, true is 1, false is 0, a string is the number it
\* spells (the empty or blank string is 0), everything else is NaN
JsNumber(x) ==
  IF x.num THEN x
  ELSE IF "lit" \in DOMAIN x THEN [num |-> TRUE, v |-> 0]
  ELSE IF "bool" \in DOMAIN x
    THEN [num |-> TRUE, v |-> IF x.bool THEN 1 ELSE 0]
  ELSE IF "str" \in DOMAIN x
    THEN LET t == trim(x.str)
         IN IF t = <<>> THEN [num |-> TRUE, v |-> 0]
            ELSE IF AllDigits(t) THEN [num |-> TRUE, v |-> DigitsToNumber(t)]
            ELSE IF t[1] = "-" /\ Len(t) > 1 /\ AllDigits(Tail(t))
              THEN [num |-> TRUE, v |-> 0 - DigitsToNumber(Tail(t))]
            ELSE [num |-> FALSE]
  ELSE [num |-> FALSE]

(***************************************************************************)
(* Scoring engine                                                          *)
(***************************************************************************)
defaultScoring ==
  [killPoints |-> 1, p1 |-> 10, p2 |-> 6, p3 |-> 5, p4 |-> 4, p5 |-> 3,
   p6 |-> 2, p7 |-> 1, p8 |-> 1, p9plus |-> 0]

\* a scoring argument is [present |-> FALSE] (null / undefined) or
\* [present |-> TRUE, obj |-> the object]
Absent == [present |-> FALSE]
Some(o) == [present |-> TRUE, obj |-> o]

\* the property name JavaScript uses for rankMap[place]
PlaceKey(place) == ToString(place)

\* rankMap?.[place] ?? 0
placementPoints(place, rankMap) ==
  IF rankMap.present /\ PlaceKey(place) \in DOMAIN rankMap.obj
    THEN rankMap.obj[PlaceKey(place)]
    ELSE 0

\* a JavaScript value handed in as kills: a number, or something Number()
\* turns into NaN
Num(n) == [num |-> TRUE, v |-> n]
NotANumber == [num |-> FALSE]

\* Number(x) || 0
NumberOr0(x) == IF x.num THEN x.v ELSE 0

\* Number(scoring?.killPoints) || 0
killPointsOf(scoring) ==
  IF scoring.present /\ "killPoints" \in DOMAIN scoring.obj
    THEN scoring.obj.killPoints
    ELSE 0

totalPoints(place, kills, scoring) ==
  LET k  == NumberOr0(kills)
      kp == killPointsOf(scoring)
  IN placementPoints(place, scoring) + (k * kp)

(***************************************************************************)
(* Team detector                                                           *)
(***************************************************************************)
normName(s) ==
  LET up      == toUpperCase(s)
      noSpace == SelectSeq(up, LAMBDA c : ~IsSpace(c))
  IN SelectSeq(noSpace, LAMBDA c : c \notin {"|", ".", "_", "-"})

\* t && n.includes(t), with tag the value of team.tag (absent when unset)
hasTag(playerName, team) ==
  LET n == normName(playerName)
      t == normName(PropOrEmpty(team, "tag"))
  IN t # <<>> /\ includes(n, t)

taggedCount(playerNames, team) ==
  Cardinality({i \in 1..Len(playerNames) : hasTag(playerNames[i], team)})

\* pickBest with the comparison tagged >= best.tagged (a later team of equal
\* count replaces the earlier one)
pickBest_LastWins(playerNames, tms, minTagged, best, k) ==
  IF taggedCount(playerNames, tms[k]) >= minTagged
     /\ (best = 0 \/ taggedCount(playerNames, tms[k])
                        >= taggedCount(playerNames, tms[best]))
    THEN k
    ELSE best

\* one iteration of the loop over teams: best is the index of the team held
\* in best (0 for null), k the index of the team looked at
pickBest(playerNames, tms, minTagged, best, k) ==
  IF taggedCount(playerNames, tms[k]) >= minTagged
     /\ (best = 0 \/ taggedCount(playerNames, tms[k])
                        > taggedCount(playerNames, tms[best]))
    THEN k
    ELSE best

RECURSIVE teamLoop(_, _, _, _, _)
teamLoop(playerNames, tms, minTagged, best, k) ==
  IF k > Len(tms) THEN best
  ELSE teamLoop(playerNames, tms, minTagged,
                pickBest(playerNames, tms, minTagged, best, k), k + 1)

\* index in tms of the returned team, 0 for null ("unknown team")
detectTeamForRow(playerNames, tms, minTagged) ==
  teamLoop(playerNames, tms, minTagged, 0, 1)

\* kills = row.kills.reduce((a, b) => a + (Number(b) || 0), 0)
RECURSIVE sumKills(_)
sumKills(ks) ==
  IF ks = <<>> THEN 0 ELSE NumberOr0(Head(ks)) + sumKills(Tail(ks))

NullResult == [null |-> TRUE]

\* scoreRow returning a record of an unknown team where it returns null
scoreRow_UnknownTeam(row, tms, scoring) ==
  LET t     == detectTeamForRow(row.players, tms, 2)
      kills == sumKills(row.kills)
      pp    == placementPoints(row.place, scoring)
  IN [null |-> FALSE, scrim_id |-> row.scrimId, game |-> row.game,
      team_tag |-> IF t = 0 THEN <<"?">> ELSE tms[t].team_tag,
      place |-> row.place, kills |-> kills,
      points |-> pp + (kills * killPointsOf(scoring))]

\* the scoreRow in effect (the later of the two function declarations)
scoreRow(row, tms, scoring) ==
  LET t     == detectTeamForRow(row.players, tms, 2)
      kills == sumKills(row.kills)
      pp    == placementPoints(row.place, scoring)
  IN IF t = 0 THEN NullResult
     ELSE [null |-> FALSE, scrim_id |-> row.scrimId, game |-> row.game,
           team_tag |-> tms[t].team_tag, place |-> row.place,
           kills |-> kills, points |-> pp + (kills * killPointsOf(scoring))]

(***************************************************************************)
(* Inputs of the pure functions                                            *)
(***************************************************************************)
SeqsUpTo(S, n) == UNION {[1..k -> S] : k \in 0..n}

Places == (0 - 1)..MaxPlace

customScoring ==
  [killPoints |-> 2, p1 |-> 20, p2 |-> 18, p3 |-> 16, p4 |-> 14, p5 |-> 12,
   p6 |-> 9, p7 |-> 7, p8 |-> 5, p9plus |-> 3]

Scorings == {Absent, Some(defaultScoring), Some(customScoring)}

KillInputs == {Num(n) : n \in (0 - MaxKills)..MaxKills} \cup {NotANumber}

NamePool ==
  { <<"D","S"," ","A","l","i","c","e">>,
    <<"D","S"," ","B","o","b">>,
    <<"C","a","r","o","l">>,
    <<"x","y",".","D","S">> }

TagPool == { <<"D","S">>, <<"X","Y">>, <<"d","-","s">> }

\* rows of the teams table as q.teamsByScrim returns them (no tag column)
TeamRows == {[team_tag |-> <<"D","S">>]}

\* the objects parseResults documents: { team_tag, tag, team_name }
TeamsForDetect == {[team_tag |-> t, tag |-> t] : t \in TagPool}

(***************************************************************************)
(* Specification of the pure functions: Init draws one call with its       *)
(* arguments, the action of the function called applies it                 *)
(***************************************************************************)
NoView == [kind |-> "none"]

InitCoreDb ==
  /\ ret = 0
  /\ teams = {}
  /\ scrim_results = {}
  /\ scrim_results_manual = {}
  /\ scoring_json = Absent
  /\ resp = NoView
  /\ matchSessions = <<>>
  /\ InitLobbyIdle

InitPlacementPoints ==
  \E place \in Places, sc \in Scorings :
    call = [fn |-> "placementPoints", done |-> FALSE, place |-> place,
            scoring |-> sc]

InitTotalPoints ==
  \E place \in Places, kills \in KillInputs, sc \in Scorings :
    call = [fn |-> "totalPoints", done |-> FALSE, place |-> place,
            kills |-> kills, scoring |-> sc]

InitDetectTeamForRow ==
  \E names \in SeqsUpTo(NamePool, MaxNames),
     tms \in SeqsUpTo(TeamRows \cup TeamsForDetect, MaxTeams),
     minTagged \in 1..MaxMinTagged :
    call = [fn |-> "detectTeamForRow", done |-> FALSE, playerNames |-> names,
            teams |-> tms, minTagged |-> minTagged]

\* a parsed row { place, players, kills } with scrimId and game added, and
\* the rows of q.teamsByScrim
InitScoreRow ==
  \E place \in {1, 9}, names \in SeqsUpTo(NamePool, MaxNames),
     ks \in {<<>>, <<Num(2)>>, <<Num(2), Num(1)>>},
     tms \in SeqsUpTo(TeamRows, MaxTeams) :
    call = [fn |-> "scoreRow", done |-> FALSE,
            row |-> [place |-> place, players |-> names, kills |-> ks,
                     scrimId |-> 1, game |-> 1],
            teams |-> tms, scoring |-> Some(defaultScoring)]

InitCore ==
  /\ InitCoreDb
  /\ \/ InitPlacementPoints
     \/ InitTotalPoints
     \/ InitDetectTeamForRow
     \/ InitScoreRow

CallPlacementPoints ==
  /\ call.fn = "placementPoints" /\ ~call.done
  /\ call' = [call EXCEPT !.done = TRUE]
  /\ ret' = placementPoints(call.place, call.scoring)
  /\ UNCHANGED dbVars

CallTotalPoints ==
  /\ call.fn = "totalPoints" /\ ~call.done
  /\ call' = [call EXCEPT !.done = TRUE]
  /\ ret' = totalPoints(call.place, call.kills, call.scoring)
  /\ UNCHANGED dbVars

CallDetectTeamForRow ==
  /\ call.fn = "detectTeamForRow" /\ ~call.done
  /\ call' = [call EXCEPT !.done = TRUE]
  /\ ret' = detectTeamForRow(call.playerNames, call.teams, call.minTagged)
  /\ UNCHANGED dbVars

CallScoreRow ==
  /\ call.fn = "scoreRow" /\ ~call.done
  /\ call' = [call EXCEPT !.done = TRUE]
  /\ ret' = scoreRow(call.row, call.teams, call.scoring)
  /\ UNCHANGED dbVars

NextCore ==
  \/ CallPlacementPoints
  \/ CallTotalPoints
  \/ CallDetectTeamForRow
  \/ CallScoreRow

SpecCore == InitCore /\ [][NextCore]_vars


(***************************************************************************)
(* Properties of the scoring engine                                        *)
(***************************************************************************)
\* the points the scoring table names for a placement: p1..p8 by rank,
\* p9plus for every other placement, 0 without a table
ConfigPoints(place, sc) ==
  IF ~sc.present THEN 0
  ELSE IF place \in 1..8
    THEN <<sc.obj.p1, sc.obj.p2, sc.obj.p3, sc.obj.p4,
           sc.obj.p5, sc.obj.p6, sc.obj.p7, sc.obj.p8>>[place]
    ELSE sc.obj.p9plus

\* C2: placementPoints(place, config) is config.p{place} for place 1..8,
\* config.p9plus for every other place, and 0 when config is absent.
C2_PlacementPointsByRank ==
  (call.fn = "placementPoints" /\ call.done)
    => ret = ConfigPoints(call.place, call.scoring)

\* C3: totalPoints(place, kills, config) = pointsForPlacement(place, config)
\* + kills * config.killPoints for every non-negative integer kills
\* (default config: totalPoints(1,5) = 15, (10,0) = 0, (3,2) = 7).
C3_TotalPointsFormula ==
  (call.fn = "totalPoints" /\ call.done /\ call.scoring.present
     /\ call.kills.num /\ call.kills.v >= 0)
    => ret = ConfigPoints(call.place, call.scoring)
               + call.kills.v * call.scoring.obj.killPoints

\* C4: a negative or non-numeric kills value counts as 0: the total is
\* never negative and equals the total for kills = 0.
C4_KillsClampedToZero ==
  (call.fn = "totalPoints" /\ call.done)
    => /\ ret >= 0
       /\ (~call.kills.num \/ call.kills.v < 0)
            => ret = totalPoints(call.place, Num(0), call.scoring)

(***************************************************************************)
(* Properties of the team detector                                         *)
(***************************************************************************)
\* number of names that carry a tag: the normalized tag is a non-empty
\* substring of the normalized name
CarryCount(names, tag) ==
  Cardinality({i \in 1..Len(names) :
                 /\ normName(tag) # <<>>
                 /\ includes(normName(names[i]), normName(tag))})

\* C9: with minMatches = 2 and the Team records of the scrim, detectTeam
\* returns a team whenever two or more names contain a team's normalized
\* team_tag, and none when every team has fewer than two tagged names.
C9_DetectsRegisteredTeam ==
  (call.fn = "detectTeamForRow" /\ call.done /\ call.minTagged = 2)
    => LET n == Len(call.teams)
           cnt(i) == CarryCount(call.playerNames, call.teams[i].team_tag)
       IN /\ (\E i \in 1..n : cnt(i) >= 2) => ret # 0
          /\ (\A i \in 1..n : cnt(i) < 2) => ret = 0

\* C10: among the teams whose tagged count reaches minMatches the result is
\* one of highest count, the first of the sequence among equals; without a
\* qualifying team the result is none; a team whose normalized tag is empty
\* is never the result.
C10_BestTeamFirstOnTie ==
  (call.fn = "detectTeamForRow" /\ call.done)
    => \A cnt \in {[i \in 1..Len(call.teams) |->
                      CarryCount(call.playerNames,
                                 PropOrEmpty(call.teams[i], "tag"))]} :
         LET Q == {i \in 1..Len(call.teams) : cnt[i] >= call.minTagged}
         IN /\ Q = {} => ret = 0
            /\ Q # {} =>
                 /\ ret \in Q
                 /\ \A j \in Q : cnt[j] <= cnt[ret]
                 /\ \A j \in Q : cnt[j] = cnt[ret] => ret <= j
            /\ ret # 0
                 => normName(PropOrEmpty(call.teams[ret], "tag")) # <<>>

\* two teams tie at a qualifying count and the first one is returned
C10_Witness ==
  /\ call.fn = "detectTeamForRow" /\ call.done
  /\ Len(call.teams) = 2
  /\ CarryCount(call.playerNames, PropOrEmpty(call.teams[1], "tag"))
       = CarryCount(call.playerNames, PropOrEmpty(call.teams[2], "tag"))
  /\ CarryCount(call.playerNames, PropOrEmpty(call.teams[1], "tag"))
       >= call.minTagged
  /\ call.teams[1] # call.teams[2]
  /\ ret = 1


(***************************************************************************)
(* Scoring configuration of a scrim                                        *)
(***************************************************************************)
\* clampInt on a JSON or form value (numbers of the model are integers, so
\* Math.trunc changes nothing)
clampInt(n, min, max, fallback) ==
  LET x == JsNumber(n)
  IN IF ~x.num THEN fallback
     ELSE IF x.v < min THEN min
     ELSE IF x.v > max THEN max
     ELSE x.v

\* obj?.pK ?? obj?.places?.[alt] : NotANumber stands for undefined, which
\* Number() turns into NaN
placeField(obj, k, alt) ==
  IF k \in DOMAIN obj /\ ~Nullish(obj[k]) THEN obj[k]
  ELSE IF "places" \in DOMAIN obj /\ alt \in DOMAIN obj.places
    THEN obj.places[alt]
    ELSE NotANumber

\* obj?.killPoints ?? obj?.kills ?? obj?.kill_points
killField(obj) ==
  IF "killPoints" \in DOMAIN obj /\ ~Nullish(obj.killPoints)
    THEN obj.killPoints
  ELSE IF "kills" \in DOMAIN obj /\ ~Nullish(obj.kills) THEN obj.kills
  ELSE IF "kill_points" \in DOMAIN obj THEN obj.kill_points
  ELSE NotANumber

\* a scoring_json column whose text JSON.parse rejects
Unparsable == [present |-> TRUE, parses |-> FALSE]

\* the value without properties: JSON null, a number or {} (obj?.k is
\* undefined for every k)
NoProps == [k \in {} |-> NotANumber]

\* sj is the scoring_json column: Absent when it is NULL or empty (!raw),
\* Unparsable when JSON.parse throws (caught), else the parsed value
getScrimScoring(sj) ==
  LET def == defaultScoring
  IN IF ~sj.present THEN def
     ELSE IF "obj" \notin DOMAIN sj THEN def
     ELSE [killPoints |-> clampInt(killField(sj.obj), 0, 50, def.killPoints),
           p1 |-> clampInt(placeField(sj.obj, "p1", "1"), 0, 200, def.p1),
           p2 |-> clampInt(placeField(sj.obj, "p2", "2"), 0, 200, def.p2),
           p3 |-> clampInt(placeField(sj.obj, "p3", "3"), 0, 200, def.p3),
           p4 |-> clampInt(placeField(sj.obj, "p4", "4"), 0, 200, def.p4),
           p5 |-> clampInt(placeField(sj.obj, "p5", "5"), 0, 200, def.p5),
           p6 |-> clampInt(placeField(sj.obj, "p6", "6"), 0, 200, def.p6),
           p7 |-> clampInt(placeField(sj.obj, "p7", "7"), 0, 200, def.p7),
           p8 |-> clampInt(placeField(sj.obj, "p8", "8"), 0, 200, def.p8),
           p9plus |-> clampInt(placeField(sj.obj, "p9plus", "9+"), 0, 200,
                               def.p9plus)]

(***************************************************************************)
(* Queries of the results page                                             *)
(***************************************************************************)
\* characters of the model in ascending code order (BINARY collation)
CharOrder ==
  <<" ", "-", ".">> \o UpperChars \o <<"_">> \o LowerChars \o <<"|">>

CodeOf ==
  [c \in {CharOrder[i] : i \in 1..Len(CharOrder)} |->
     CHOOSE i \in 1..Len(CharOrder) : CharOrder[i] = c]

CharCode(c) == CodeOf[c]

StrLess(a, b) ==
  \E k \in 1..(Len(a) + 1) :
    /\ \A i \in 1..(k - 1) : i <= Len(b) /\ a[i] = b[i]
    /\ k <= Len(b)
    /\ (k > Len(a) \/ CharCode(a[k]) < CharCode(b[k]))

\* ORDER BY game ASC, points DESC, kills DESC, place ASC, team_tag ASC
RowLess(a, b) ==
  \/ a.game < b.game
  \/ a.game = b.game /\ a.points > b.points
  \/ a.game = b.game /\ a.points = b.points /\ a.kills > b.kills
  \/ a.game = b.game /\ a.points = b.points /\ a.kills = b.kills
       /\ a.place < b.place
  \/ a.game = b.game /\ a.points = b.points /\ a.kills = b.kills
       /\ a.place = b.place /\ StrLess(a.team_tag, b.team_tag)

\* the rows of a results table in the order of the ORDER BY clause
RECURSIVE resultRows(_)
resultRows(S) ==
  IF S = {} THEN <<>>
  ELSE LET m == CHOOSE x \in S : \A y \in S \ {x} : RowLess(x, y)
       IN <<m>> \o resultRows(S \ {m})

\* q.teamsByScrim: ORDER BY slot ASC
RECURSIVE teamsByScrim(_)
teamsByScrim(T) ==
  IF T = {} THEN <<>>
  ELSE LET m == CHOOSE x \in T : \A y \in T \ {x} : x.slot < y.slot
       IN <<m>> \o teamsByScrim(T \ {m})

(***************************************************************************)
(* GET /scrims/:id/results : merge                                         *)
(***************************************************************************)
\* `${r.game}::${(r.team_tag||"").trim().toUpperCase()}`
key(r) == <<r.game, toUpperCase(trim(r.team_tag))>>

manualMapHas(manualRows, k) ==
  \E i \in 1..Len(manualRows) : key(manualRows[i]) = k

\* Map.set keeps the last row written for a key
manualMapGet(manualRows, k) ==
  LET idx == {i \in 1..Len(manualRows) : key(manualRows[i]) = k}
  IN manualRows[CHOOSE i \in idx : \A j \in idx : j <= i]

\* mergedRowsOf keeping the automated row of a key that has a manual row
mergedRowsOf_OcrWins(ocrRows, manualRows) ==
  LET seenOcr == {key(ocrRows[i]) : i \in 1..Len(ocrRows)}
      pushed(i) ==
        /\ key(manualRows[i]) \notin seenOcr
        /\ \A j \in 1..(i - 1) : key(manualRows[j]) # key(manualRows[i])
      RECURSIVE manualOnly(_)
      manualOnly(i) ==
        IF i > Len(manualRows) THEN <<>>
        ELSE (IF pushed(i) THEN <<manualRows[i]>> ELSE <<>>)
               \o manualOnly(i + 1)
  IN ocrRows \o manualOnly(1)

mergedRowsOf(ocrRows, manualRows) ==
  LET fromOcr ==
        [i \in 1..Len(ocrRows) |->
           IF manualMapHas(manualRows, key(ocrRows[i]))
             THEN manualMapGet(manualRows, key(ocrRows[i]))
             ELSE ocrRows[i]]
      seenOcr == {key(ocrRows[i]) : i \in 1..Len(ocrRows)}
      pushed(i) ==
        /\ key(manualRows[i]) \notin seenOcr
        /\ \A j \in 1..(i - 1) : key(manualRows[j]) # key(manualRows[i])
      RECURSIVE manualOnly(_)
      manualOnly(i) ==
        IF i > Len(manualRows) THEN <<>>
        ELSE (IF pushed(i) THEN <<manualRows[i]>> ELSE <<>>)
               \o manualOnly(i + 1)
  IN fromOcr \o manualOnly(1)


(***************************************************************************)
(* GET /scrims/:id/results : aggregate                                     *)
(***************************************************************************)
\* one iteration of the loop over mergedRows; the Map agg is the sequence
\* of its values in insertion order, games holds the Set of gamesByTag
aggAdd(agg, r, scoring) ==
  LET tag      == trim(r.team_tag)
      placePts == placementPoints(r.place, Some(scoring))
      killPts  == r.kills * scoring.killPoints
      totalPts == placePts + killPts
      add(a)   == [a EXCEPT !.games = a.games \cup {r.game},
                            !.kills = a.kills + r.kills,
                            !.placement_points = a.placement_points + placePts,
                            !.kill_points = a.kill_points + killPts,
                            !.points = a.points + totalPts]
      fresh    == [team_tag |-> tag, games |-> {}, kills |-> 0,
                   placement_points |-> 0, kill_points |-> 0, points |-> 0]
  IN IF tag = <<>> THEN agg
     ELSE IF \E i \in 1..Len(agg) : agg[i].team_tag = tag
       THEN [i \in 1..Len(agg) |->
               IF agg[i].team_tag = tag THEN add(agg[i]) ELSE agg[i]]
       ELSE Append(agg, add(fresh))

RECURSIVE aggLoop(_, _, _, _)
aggLoop(mergedRows, scoring, agg, k) ==
  IF k > Len(mergedRows) THEN agg
  ELSE aggLoop(mergedRows, scoring, aggAdd(agg, mergedRows[k], scoring), k + 1)

aggOf(mergedRows, scoring) == aggLoop(mergedRows, scoring, <<>>, 1)

(***************************************************************************)
(* GET /scrims/:id/results : leaderboard                                   *)
(***************************************************************************)
\* slot: "" of an entry without a registered team
NoSlot == [num |-> FALSE]

NotRegisteredName == "(not registered)"

aggHas(agg, tag) == \E i \in 1..Len(agg) : agg[i].team_tag = tag
aggGet(agg, tag) == agg[CHOOSE i \in 1..Len(agg) : agg[i].team_tag = tag]

\* tagToTeam.has(tag)
tagToTeamHas(tms, tag) ==
  \E i \in 1..Len(tms) : trim(tms[i].team_tag) # <<>>
                           /\ trim(tms[i].team_tag) = tag

\* registeredEntries listing only the teams that have results
registeredEntries_OnlyScored(tms, agg) ==
  LET all == [i \in 1..Len(tms) |->
                LET tag == trim(tms[i].team_tag)
                IN IF aggHas(agg, tag)
                     THEN LET a == aggGet(agg, tag)
                          IN [slot |-> Num(tms[i].slot), team_tag |-> tag,
                              team_name |-> tms[i].team_name,
                              games |-> Cardinality(a.games),
                              placement_points |-> a.placement_points,
                              kills |-> a.kills,
                              kill_points |-> a.kill_points,
                              points |-> a.points]
                     ELSE [slot |-> Num(tms[i].slot), team_tag |-> tag,
                           team_name |-> tms[i].team_name, games |-> 0,
                           placement_points |-> 0, kills |-> 0,
                           kill_points |-> 0, points |-> 0]]
  IN SelectSeq(all, LAMBDA e : aggHas(agg, e.team_tag))

\* teams.map(...): one entry per registered team
registeredEntries(tms, agg) ==
  [i \in 1..Len(tms) |->
     LET tag == trim(tms[i].team_tag)
     IN IF aggHas(agg, tag)
          THEN LET a == aggGet(agg, tag)
               IN [slot |-> Num(tms[i].slot), team_tag |-> tag,
                   team_name |-> tms[i].team_name,
                   games |-> Cardinality(a.games),
                   placement_points |-> a.placement_points,
                   kills |-> a.kills, kill_points |-> a.kill_points,
                   points |-> a.points]
          ELSE [slot |-> Num(tms[i].slot), team_tag |-> tag,
                team_name |-> tms[i].team_name, games |-> 0,
                placement_points |-> 0, kills |-> 0, kill_points |-> 0,
                points |-> 0]]

\* unregisteredEntries pushing nothing
unregisteredEntries_None(tms, agg, i) == <<>>

\* the entries pushed for the tags of agg that tagToTeam does not hold
RECURSIVE unregisteredEntries(_, _, _)
unregisteredEntries(tms, agg, i) ==
  IF i > Len(agg) THEN <<>>
  ELSE (IF tagToTeamHas(tms, agg[i].team_tag) THEN <<>>
        ELSE << [slot |-> NoSlot, team_tag |-> agg[i].team_tag,
                 team_name |-> NotRegisteredName,
                 games |-> Cardinality(agg[i].games),
                 placement_points |-> agg[i].placement_points,
                 kills |-> agg[i].kills, kill_points |-> agg[i].kill_points,
                 points |-> agg[i].points] >>)
         \o unregisteredEntries(tms, agg, i + 1)

\* x.slot || 9999
slotOr9999(x) == IF x.slot.num /\ x.slot.v # 0 THEN x.slot.v ELSE 9999

\* compareEntries without the kills tiebreak
compareEntries_NoKills(x, y) ==
  IF y.points - x.points # 0 THEN y.points - x.points
  ELSE slotOr9999(x) - slotOr9999(y)

\* the comparator of leaderboard.sort
compareEntries(x, y) ==
  IF y.points - x.points # 0 THEN y.points - x.points
  ELSE IF y.kills - x.kills # 0 THEN y.kills - x.kills
  ELSE slotOr9999(x) - slotOr9999(y)

\* Array.prototype.sort is stable: an element goes before the first element
\* that compares greater
insertSorted(L, x) ==
  LET gt  == {j \in 1..Len(L) : compareEntries(L[j], x) > 0}
      pos == IF gt = {} THEN Len(L) + 1
             ELSE CHOOSE j \in gt : \A m \in gt : j <= m
  IN SubSeq(L, 1, pos - 1) \o <<x>> \o SubSeq(L, pos, Len(L))

RECURSIVE sortLoop(_, _, _)
sortLoop(a, L, k) ==
  IF k > Len(a) THEN L ELSE sortLoop(a, insertSorted(L, a[k]), k + 1)

sortLeaderboard(a) == sortLoop(a, <<>>, 1)

leaderboardOf(tms, mergedRows, scoring) ==
  LET agg == aggOf(mergedRows, scoring)
  IN sortLeaderboard(registeredEntries(tms, agg)
                       \o unregisteredEntries(tms, agg, 1))

(***************************************************************************)
(* Specification of the results page: Init draws the stored tables of one  *)
(* scrim, GetResults is the request                                        *)
(***************************************************************************)
MaxSlot == 3
MaxOcrRows == 2
MaxManualRows == 1

Games == {1, 2}

RegisteredTags == { <<"D","S">>, <<"X","Y">> }

\* an automated row keeps team.team_tag as registered: at most 6 characters
\* of the trimmed input, so a tag may end in a space
OcrTags == { <<"D","S">>, <<"D","S"," ">> }

ManualTags == RegisteredTags

RowValues == {[place |-> 1, kills |-> 2], [place |-> 2, kills |-> 0]}

NoRow == [place |-> 0, kills |-> 0]

\* points as they were stored under the default scoring
ResultRow(g, t, v) ==
  [game |-> g, team_tag |-> t, place |-> v.place, kills |-> v.kills,
   points |-> totalPoints(v.place, Num(v.kills), Some(defaultScoring))]

\* PRIMARY KEY (scrim_id, game, team_tag): a table is a choice, per key, of
\* no row or one row
TableOf(tags, f) ==
  {ResultRow(k[1], k[2], f[k]) : k \in {x \in Games \X tags : f[x] # NoRow}}

TableChoices(tags, n) ==
  {f \in [Games \X tags -> RowValues \cup {NoRow}] :
     Cardinality({k \in Games \X tags : f[k] # NoRow}) <= n}

\* one team per slot; slots alternate between the two registered tags
TagOfSlot(s) == IF s % 2 = 1 THEN <<"D","S">> ELSE <<"X","Y">>

TeamsAt(S) ==
  {[slot |-> s, team_tag |-> TagOfSlot(s), team_name |-> "Team"] : s \in S}

customScoringJson ==
  [killPoints |-> Num(0), p1 |-> Num(20), p2 |-> Num(18), p3 |-> Num(16),
   p4 |-> Num(14), p5 |-> Num(12), p6 |-> Num(9), p7 |-> Num(7),
   p8 |-> Num(5), p9plus |-> Num(3)]

InitBoard ==
  /\ call = [fn |-> "none", done |-> FALSE]
  /\ ret = 0
  /\ \E S \in SUBSET (1..MaxSlot) : teams = TeamsAt(S)
  /\ \E f \in TableChoices(OcrTags, MaxOcrRows) :
       scrim_results = TableOf(OcrTags, f)
  /\ \E f \in TableChoices(ManualTags, MaxManualRows) :
       scrim_results_manual = TableOf(ManualTags, f)
  /\ scoring_json \in {Absent, Some(customScoringJson)}
  /\ resp = NoView
  /\ matchSessions = <<>>
  /\ InitLobbyIdle

GetResults ==
  /\ resp.kind = "none"
  /\ LET tms        == teamsByScrim(teams)
         ocrRows    == resultRows(scrim_results)
         manualRows == resultRows(scrim_results_manual)
         mergedRows == mergedRowsOf(ocrRows, manualRows)
         scoring    == getScrimScoring(scoring_json)
     IN resp' = [kind |-> "results", mergedRows |-> mergedRows,
                 scoring |-> scoring,
                 leaderboard |-> leaderboardOf(tms, mergedRows, scoring)]
  /\ UNCHANGED <<lobbyVars,
                 call, ret, teams, scrim_results, scrim_results_manual,
                 scoring_json, matchSessions>>

NextBoard == GetResults

SpecBoard == InitBoard /\ [][NextBoard]_vars


(***************************************************************************)
(* Properties of the merge and the leaderboard                             *)
(***************************************************************************)
Range(q) == {q[i] : i \in 1..Len(q)}

RECURSIVE SumF(_, _)
SumF(f, S) ==
  IF S = {} THEN 0
  ELSE LET x == CHOOSE y \in S : TRUE IN f[x] + SumF(f, S \ {x})

Shown == resp.kind = "results"

\* the positions of the effective records of a (trimmed) tag
RowsOfTag(M, tag) == {i \in 1..Len(M) : trim(M[i].team_tag) = tag}

IsRegisteredTag(tag) == \E t \in teams : trim(t.team_tag) = tag

\* C1: for a key (game, normalized tag) that has a manual record, the
\* effective record is a manual record of that key, whole; a key with
\* automated records only uses an automated record; every key that has a
\* record has an effective record.
C1_ManualOverridesOcr ==
  Shown =>
    LET M == resp.mergedRows
    IN /\ \A i \in 1..Len(M) :
            IF \E m \in scrim_results_manual : key(m) = key(M[i])
              THEN \E m \in scrim_results_manual :
                     key(m) = key(M[i]) /\ M[i] = m
              ELSE \E o \in scrim_results : key(o) = key(M[i]) /\ M[i] = o
       /\ \A r \in scrim_results \cup scrim_results_manual :
            \E i \in 1..Len(M) : key(M[i]) = key(r)

\* a key has an automated and a manual record that differ in place and kills
C1_Witness ==
  /\ Shown
  /\ \E o \in scrim_results, m \in scrim_results_manual :
       /\ key(o) = key(m) /\ o.place # m.place /\ o.kills # m.kills
       /\ m \in Range(resp.mergedRows)
       /\ o \notin Range(resp.mergedRows)

ZeroFilled(e) == e.games = 0 /\ e.kills = 0 /\ e.points = 0

\* C5: every registered team has an entry in the leaderboard, zero-filled
\* when the team has no effective record; 3 registered teams of which one
\* has records (and no other records) give exactly 3 entries, two zero-filled.
C5_EveryTeamListed ==
  Shown =>
    LET L == resp.leaderboard
        M == resp.mergedRows
        reg == {i \in 1..Len(L) : L[i].slot.num}
    IN /\ \A t \in teams :
            \E i \in reg :
              /\ L[i].slot = Num(t.slot)
              /\ L[i].team_tag = trim(t.team_tag)
              /\ RowsOfTag(M, trim(t.team_tag)) = {} => ZeroFilled(L[i])
       /\ Cardinality(reg) = Cardinality(teams)
       /\ ( /\ Cardinality(teams) = 3
            /\ Cardinality({t \in teams :
                              RowsOfTag(M, trim(t.team_tag)) # {}}) = 1
            /\ \A i \in 1..Len(M) : IsRegisteredTag(trim(M[i].team_tag)) )
          => /\ Len(L) = 3
             /\ Cardinality({i \in 1..Len(L) : ZeroFilled(L[i])}) = 2

\* three registered teams, one of them with results, two zero-filled entries
C5_Witness ==
  /\ Shown
  /\ Cardinality(teams) = 3
  /\ Len(resp.leaderboard) = 3
  /\ Cardinality({i \in 1..3 : ZeroFilled(resp.leaderboard[i])}) = 2
  /\ \E i \in 1..3 : resp.leaderboard[i].games > 0

C7_SortOrder ==
  Shown =>
    LET L == resp.leaderboard
    IN \A i, j \in 1..Len(L) :
         i < j =>
           /\ L[i].points >= L[j].points
           /\ L[i].points = L[j].points => L[i].kills >= L[j].kills
           /\ (L[i].points = L[j].points /\ L[i].kills = L[j].kills) =>
                /\ (L[i].slot.num /\ L[j].slot.num)
                     => L[i].slot.v <= L[j].slot.v
                /\ ~(~L[i].slot.num /\ L[j].slot.num)

\* equal points, and the kills put a higher slot before a lower one
C7_Witness ==
  /\ Shown
  /\ \E i \in 1..(Len(resp.leaderboard) - 1) :
       LET a == resp.leaderboard[i]
           b == resp.leaderboard[i + 1]
       IN /\ a.points = b.points /\ a.kills > b.kills
          /\ a.slot.num /\ b.slot.num /\ a.slot.v > b.slot.v

\* C8: per entry, kills, placement_points, kill_points and points are the
\* sums over the team's effective records, placement_points summing the
\* scoring table's points of each place; games counts the distinct games.
C8_EntryTotals ==
  Shown =>
    LET L == resp.leaderboard
        M == resp.mergedRows
        sc == Some(resp.scoring)
    IN \A j \in 1..Len(L) :
         LET rows == RowsOfTag(M, L[j].team_tag)
             pp == SumF([i \in 1..Len(M) |-> ConfigPoints(M[i].place, sc)], rows)
             kp == SumF([i \in 1..Len(M) |->
                           M[i].kills * resp.scoring.killPoints], rows)
         IN /\ L[j].kills = SumF([i \in 1..Len(M) |-> M[i].kills], rows)
            /\ L[j].placement_points = pp
            /\ L[j].kill_points = kp
            /\ L[j].points = pp + kp
            /\ L[j].games = Cardinality({M[i].game : i \in rows})


(***************************************************************************)
(* OCR text: normalizer and scoreboard row parser                          *)
(***************************************************************************)
\* the regular expression class \w
IsWordChar(c) ==
  \/ IsDigit(c)
  \/ c \in DOMAIN UpperOf
  \/ c \in {UpperChars[i] : i \in 1..26}
  \/ c = "_"

\* "" + n for a non-negative integer
RECURSIVE NatToString(_)
NatToString(n) ==
  IF n < 10 THEN <<Digits[n + 1]>>
  ELSE NatToString(n \div 10) \o <<Digits[(n % 10) + 1]>>

\* "" + n : the decimal form of an integer
NumberToString(n) ==
  IF n < 0 THEN <<"-">> \o NatToString(0 - n) ELSE NatToString(n)

\* s without its leading white space
dropLeadingSpace(s) ==
  LET keep == {i \in 1..Len(s) : ~IsSpace(s[i])}
  IN IF keep = {} THEN <<>>
     ELSE SubSeq(s, CHOOSE i \in keep : \A j \in keep : i <= j, Len(s))

\* isPlaceLine with every n up to 99 taken as a place
isPlaceLine_NoRange(line) ==
  LET t == trim(line)
      d == IF t # <<>> /\ t[1] = "#" THEN dropLeadingSpace(Tail(t)) ELSE t
  IN IF Len(d) \in {1, 2} /\ AllDigits(d) THEN DigitsToNumber(d) ELSE 0

\* /^(?:#\s*)?(\d{1,2})$/ on the trimmed line, then 1 <= n <= 25; 0 stands
\* for null (both callers test the result for null / falsy, and a place is
\* never 0)
isPlaceLine(line) ==
  LET t == trim(line)
      d == IF t # <<>> /\ t[1] = "#" THEN dropLeadingSpace(Tail(t)) ELSE t
      n == DigitsToNumber(d)
  IN IF Len(d) \in {1, 2} /\ AllDigits(d)
       THEN (IF n < 1 \/ n > 25 THEN 0 ELSE n)
       ELSE 0

\* String.prototype.split(/\r?\n/): the pieces between the line breaks, a
\* "\r" right before a "\n" being part of the break
splitLines(text) ==
  LET brk    == {i \in 1..Len(text) : text[i] = "\n"}
      ends   == brk \cup {Len(text) + 1}
      from(e) == IF \E b \in brk : b < e
                   THEN (CHOOSE b \in brk :
                           b < e /\ \A c \in brk : c < e => c <= b) + 1
                   ELSE 1
      to(e)  == IF e <= Len(text) /\ e - 1 >= from(e) /\ text[e - 1] = "\r"
                  THEN e - 2 ELSE e - 1
      RECURSIVE pieces(_)
      pieces(E) ==
        IF E = {} THEN <<>>
        ELSE LET e == CHOOSE x \in E : \A y \in E : x <= y
             IN <<SubSeq(text, from(e), to(e))>> \o pieces(E \ {e})
  IN pieces(ends)

\* .map(l => l.trim()).filter(Boolean)
rawLinesOf(ocrText) ==
  SelectSeq([i \in 1..Len(splitLines(ocrText)) |->
               trim(splitLines(ocrText)[i])],
            LAMBDA l : l # <<>>)

ELIMINATION == <<"E","L","I","M","I","N","A","T","I","O","N">>

\* the end of a match of \s+ELIMINATION(?:S)?\b that begins at position p of
\* up (0 when there is none)
killTailAt(up, p) ==
  LET sp == {w \in 1..(Len(up) - p + 1) :
               /\ p + w + 10 <= Len(up)
               /\ \A k \in p..(p + w - 1) : IsSpace(up[k])
               /\ SubSeq(up, p + w, p + w + 10) = ELIMINATION}
      e(w) == p + w + 10
      bnd(q) == q = Len(up) \/ ~IsWordChar(up[q + 1])
      ok == {w \in sp :
               \/ (e(w) < Len(up) /\ up[e(w) + 1] = "S" /\ bnd(e(w) + 1))
               \/ bnd(e(w))}
  IN IF ok = {} THEN 0 ELSE 1

\* up.match(/\b(\d{1,2})\s+ELIMINATION(?:S)?\b/): the number captured by
\* the leftmost match, NotANumber for no match
killMatch(up) ==
  LET at == {x \in (1..Len(up)) \X {1, 2} :
               /\ x[1] + x[2] - 1 <= Len(up)
               /\ \A k \in x[1]..(x[1] + x[2] - 1) : IsDigit(up[k])
               /\ (x[1] = 1 \/ ~IsWordChar(up[x[1] - 1]))
               /\ killTailAt(up, x[1] + x[2]) = 1}
  IN IF at = {} THEN NotANumber
     ELSE LET m == CHOOSE x \in at : \A y \in at : x[1] <= y[1]
          IN Num(DigitsToNumber(SubSeq(up, m[1], m[1] + m[2] - 1)))

NoiseTokens ==
  { <<"P","U","B","G">>, <<"M","O","B","I","L","E">>,
    <<"M","A","T","C","H">>, <<"R","E","S","U","L","T">> }

\* segStep pushing every candidate name (no cap of 4)
segStep_NoCap(acc, line) ==
  LET up == toUpperCase(line)
      km == killMatch(up)
  IN IF km.num THEN [acc EXCEPT !.kills = Append(@, km)]
     ELSE IF \E t \in NoiseTokens : includes(up, t) THEN acc
     ELSE IF AllDigits(up) THEN acc
     ELSE IF includes(up, ELIMINATION) THEN acc
     ELSE [acc EXCEPT !.players = Append(@, line)]

\* segStep keeping only the first kill value of a segment
segStep_OneKill(acc, line) ==
  LET up == toUpperCase(line)
      km == killMatch(up)
  IN IF km.num
       THEN (IF acc.kills = <<>> THEN [acc EXCEPT !.kills = Append(@, km)]
             ELSE acc)
     ELSE IF \E t \in NoiseTokens : includes(up, t) THEN acc
     ELSE IF AllDigits(up) THEN acc
     ELSE IF includes(up, ELIMINATION) THEN acc
     ELSE IF Len(acc.players) < 4
       THEN [acc EXCEPT !.players = Append(@, line)]
       ELSE acc

\* one iteration of the loop over the lines of a segment
segStep(acc, line) ==
  LET up == toUpperCase(line)
      km == killMatch(up)
  IN IF km.num THEN [acc EXCEPT !.kills = Append(@, km)]
     ELSE IF \E t \in NoiseTokens : includes(up, t) THEN acc
     ELSE IF AllDigits(up) THEN acc
     ELSE IF includes(up, ELIMINATION) THEN acc
     ELSE IF Len(acc.players) < 4
       THEN [acc EXCEPT !.players = Append(@, line)]
       ELSE acc

RECURSIVE segLoop(_, _, _)
segLoop(seg, k, acc) ==
  IF k > Len(seg) THEN acc ELSE segLoop(seg, k + 1, segStep(acc, seg[k]))

\* segEnd running to the end of the text
segEnd_ToEnd(rawLines, i) == Len(rawLines) + 1

\* the index j at which the inner while loop stops: the next place line
\* after i, or one past the last line
segEnd(rawLines, i) ==
  LET nxt == {j \in (i + 1)..Len(rawLines) : isPlaceLine(rawLines[j]) # 0}
  IN IF nxt = {} THEN Len(rawLines) + 1
     ELSE CHOOSE j \in nxt : \A m \in nxt : j <= m

\* rowsPush pushing a row for every place line
rowsPush_Always(rows, row) == Append(rows, row)

\* if (players.length || kills.length) rows.push({ place, players, kills })
rowsPush(rows, row) ==
  IF Len(row.players) # 0 \/ Len(row.kills) # 0 THEN Append(rows, row)
  ELSE rows

\* the outer while loop from index i on
RECURSIVE rowsLoop(_, _, _)
rowsLoop(rawLines, i, rows) ==
  IF i > Len(rawLines) THEN rows
  ELSE IF isPlaceLine(rawLines[i]) = 0 THEN rowsLoop(rawLines, i + 1, rows)
  ELSE LET j   == segEnd(rawLines, i)
           seg == SubSeq(rawLines, i + 1, j - 1)
           acc == segLoop(seg, 1, [players |-> <<>>, kills |-> <<>>])
           row == [place |-> isPlaceLine(rawLines[i]),
                   players |-> acc.players, kills |-> acc.kills]
       IN rowsLoop(rawLines, j, rowsPush(rows, row))

parseScoreboardRows(ocrText) == rowsLoop(rawLinesOf(ocrText), 1, <<>>)

\* toUpperCase, then every run of white space other than \r and \n becomes
\* one space, then every character outside [A-Z0-9\r\n ] becomes a space
normalizeForLines(t) ==
  LET up == toUpperCase(t)
      blank(c) == IsSpace(c) /\ c \notin {"\r", "\n"}
      keep == {i \in 1..Len(up) :
                 ~blank(up[i]) \/ i = 1 \/ ~blank(up[i - 1])}
      RECURSIVE squeeze(_)
      squeeze(i) == IF i > Len(up) THEN <<>>
                    ELSE (IF i \in keep
                            THEN <<IF blank(up[i]) THEN " " ELSE up[i]>>
                            ELSE <<>>) \o squeeze(i + 1)
      sq == squeeze(1)
      ok(c) == IsDigit(c) \/ c \in {UpperChars[i] : i \in 1..26}
                 \/ c \in {"\r", "\n", " "}
  IN [i \in 1..Len(sq) |-> IF ok(sq[i]) THEN sq[i] ELSE " "]

(***************************************************************************)
(* Specification of the parser: Init draws one call with its text, the     *)
(* action of the function called applies it                                *)
(***************************************************************************)
MaxNum == 101
MaxLines == 4
MaxSegLines == 5
MaxTextLen == 4

Alice == <<"A","l","i","c","e">>
Bob == <<"B","o","b">>

\* lines an OCR text is made of
LinePool ==
  { <<"1">>, <<"#","2">>, Alice, Bob,
    <<"3"," ">> \o ELIMINATION \o <<"S">>,
    <<"7","7">>,
    <<"P","U","B","G"," ","M","O","B","I","L","E">> }

\* lines of a long segment
SegLinePool == { Alice, Bob, <<"2"," ">> \o ELIMINATION }

\* the text of the documented example, and texts with blank lines, \r\n
\* breaks, padded lines, lower case and three-digit kill lines
FixedLines ==
  { << <<"1">>, Alice, <<"2">>, Bob, <<"3"," ">> \o ELIMINATION \o <<"S">> >>,
    << <<" ","#"," ","7"," ">>, <<>>, <<" ">> \o Bob, <<"\t">>,
       <<"1","2"," ","e","l","i","m","i","n","a","t","i","o","n">> >>,
    << <<"4">>, <<"1","0","0"," ">> \o ELIMINATION \o <<"S">>, Alice >>,
    << <<"5">>, Bob \o <<" ","1","\t">> \o ELIMINATION \o <<"S","!">>,
       <<"9"," ">> \o ELIMINATION \o <<"S","X">>,
       <<"m","a","t","c","h"," ","1">> >>,
    << Alice, <<"2","5">>, <<"2","6">>, <<"0">>, Bob, <<"0","3">>, Alice >>,
    << <<"6">>, ELIMINATION \o <<"S">>, Bob >>,
    << <<"8">>, ELIMINATION \o <<"S">> >> }

RECURSIVE joinLines(_, _)
joinLines(ls, sep) ==
  IF ls = <<>> THEN <<>>
  ELSE IF Len(ls) = 1 THEN ls[1]
  ELSE ls[1] \o sep \o joinLines(Tail(ls), sep)

LineBreaks == { <<"\n">>, <<"\r","\n">> }

NormChars == {"a", "B", "1", " ", "\t", "-", "\n"}

InitIsPlaceLine ==
  \/ \E n \in (0 - MaxNum)..MaxNum, h \in { <<>>, <<"#">> } :
       call = [fn |-> "isPlaceLine", done |-> FALSE, n |-> Num(n),
               line |-> h \o NumberToString(n)]
  \/ \E l \in { <<"a","b","c">>, <<"#"," ","7">>, <<"0","7">>,
                <<" ","5"," ">>, <<"1"," ","2">>, <<"#">>, <<>>,
                <<"#","#","3">>, <<"3","#">> } :
       call = [fn |-> "isPlaceLine", done |-> FALSE, n |-> NotANumber,
               line |-> l]

InitParseScoreboardRows ==
  \/ \E ls \in SeqsUpTo(LinePool, MaxLines) :
       call = [fn |-> "parseScoreboardRows", done |-> FALSE, lines |-> ls,
               ocrText |-> joinLines(ls, <<"\n">>)]
  \/ \E ls \in {<< <<"1">> >> \o x : x \in SeqsUpTo(SegLinePool, MaxSegLines)}
                \cup FixedLines,
        sep \in LineBreaks :
       call = [fn |-> "parseScoreboardRows", done |-> FALSE, lines |-> ls,
               ocrText |-> joinLines(ls, sep)]

InitNormalizeForLines ==
  \E t \in SeqsUpTo(NormChars, MaxTextLen) :
    call = [fn |-> "normalizeForLines", done |-> FALSE, t |-> t]

\* kill lines of one row of a scoreboard
KillLinePool ==
  { <<"2"," ">> \o ELIMINATION,
    <<"1","3"," ">> \o ELIMINATION \o <<"S">>,
    <<"1","0","0"," ">> \o ELIMINATION \o <<"S">> }

MaxKillLines == 2

\* scoreRow on the first row parsed from a text of one marker, two names and
\* kill lines, with a team object that carries its tag
InitScoreParsedRow ==
  \E names \in { << <<"D","S"," ","A","l">>, <<"D","S"," ","B","o">> >>,
                 << <<"D","S"," ","A","l">>, Alice >> },
     ks \in SeqsUpTo(KillLinePool, MaxKillLines),
     m \in { <<"1">>, <<"#","9">> },
     tms \in { << [team_tag |-> <<"D","S">>, tag |-> <<"D","S">>] >>,
               << [team_tag |-> <<"D","S">>] >> } :
    LET ls   == <<m>> \o names \o ks
        rows == parseScoreboardRows(joinLines(ls, <<"\n">>))
    IN call = [fn |-> "scoreRow", done |-> FALSE, lines |-> ls,
               row |-> [place |-> rows[1].place,
                        players |-> rows[1].players,
                        kills |-> rows[1].kills, scrimId |-> 1, game |-> 1],
               teams |-> tms, scoring |-> Some(defaultScoring)]

InitParse ==
  /\ InitCoreDb
  /\ \/ InitIsPlaceLine
     \/ InitParseScoreboardRows
     \/ InitNormalizeForLines
     \/ InitScoreParsedRow

CallIsPlaceLine ==
  /\ call.fn = "isPlaceLine" /\ ~call.done
  /\ call' = [call EXCEPT !.done = TRUE]
  /\ ret' = isPlaceLine(call.line)
  /\ UNCHANGED dbVars

CallParseScoreboardRows ==
  /\ call.fn = "parseScoreboardRows" /\ ~call.done
  /\ call' = [call EXCEPT !.done = TRUE]
  /\ ret' = parseScoreboardRows(call.ocrText)
  /\ UNCHANGED dbVars

CallNormalizeForLines ==
  /\ call.fn = "normalizeForLines" /\ ~call.done
  /\ call' = [call EXCEPT !.done = TRUE]
  /\ ret' = normalizeForLines(call.t)
  /\ UNCHANGED dbVars

NextParse ==
  \/ CallIsPlaceLine
  \/ CallParseScoreboardRows
  \/ CallNormalizeForLines
  \/ CallScoreRow

SpecParse == InitParse /\ [][NextParse]_vars

(***************************************************************************)
(* Properties of the parser                                                *)
(***************************************************************************)
\* C11: for every integer n, "#" + n and "" + n are place markers exactly
\* when 1 <= n <= 25 (the marker's value is n); "0", "26" and "abc" are not
\* place markers.
C11_PlaceMarkerRange ==
  (call.fn = "isPlaceLine" /\ call.done)
    => /\ call.n.num
            => /\ (ret # 0) <=> (1 <= call.n.v /\ call.n.v <= 25)
               /\ ret # 0 => ret = call.n.v
       /\ call.line \in { <<"0">>, <<"2","6">>, <<"a","b","c">> } => ret = 0

\* "#25" is recognised as place 25
C11_Witness ==
  /\ call.fn = "isPlaceLine" /\ call.done
  /\ call.line = <<"#","2","5">>
  /\ ret = 25

\* the non-empty trimmed lines of the text, from the lines it was joined of
LinesOf(ls) ==
  SelectSeq([i \in 1..Len(ls) |-> trim(ls[i])], LAMBDA l : l # <<>>)

MarkersOf(L) == {i \in 1..Len(L) : isPlaceLine(L[i]) # 0}

\* the lines strictly between marker m and the next marker (or the end)
SegmentOf(L, m) ==
  LET nxt == {j \in MarkersOf(L) : j > m}
      e   == IF nxt = {} THEN Len(L) + 1
             ELSE CHOOSE j \in nxt : \A x \in nxt : j <= x
  IN SubSeq(L, m + 1, e - 1)

Parsed == call.fn = "parseScoreboardRows" /\ call.done

ExampleRows ==
  << [place |-> 1, players |-> <<Alice>>, kills |-> <<>>],
     [place |-> 2, players |-> <<Bob>>, kills |-> <<Num(3)>>] >>

\* C12: the rows follow their markers in order; a row's place is its
\* marker's value, its players are lines of the marker's segment and its
\* kills are numbers written in lines of that segment; the example text
\* yields exactly its two rows.
C12_RowSegmentation ==
  Parsed =>
    \A L \in {LinesOf(call.lines)} :
      /\ \E f \in [1..Len(ret) -> MarkersOf(L)] :
           /\ \A a, b \in 1..Len(ret) : a < b => f[a] < f[b]
           /\ \A k \in 1..Len(ret) :
                \A seg \in {SegmentOf(L, f[k])} :
                  /\ ret[k].place = isPlaceLine(L[f[k]])
                  /\ \A p \in 1..Len(ret[k].players) :
                       \E i \in 1..Len(seg) : seg[i] = ret[k].players[p]
                  /\ \A p \in 1..Len(ret[k].kills) :
                       \E i \in 1..Len(seg) :
                         includes(seg[i], NumberToString(ret[k].kills[p].v))
      /\ call.lines = << <<"1">>, Alice, <<"2">>, Bob,
                         <<"3"," ">> \o ELIMINATION \o <<"S">> >>
           => ret = ExampleRows

\* the example text was parsed into its two rows
C12_Witness ==
  /\ Parsed
  /\ call.lines = << <<"1">>, Alice, <<"2">>, Bob,
                     <<"3"," ">> \o ELIMINATION \o <<"S">> >>
  /\ ret = ExampleRows

HasNoise(up) == \E t \in NoiseTokens : includes(up, t)

\* a line that yields a kill value or a candidate name
Productive(line) ==
  LET up == toUpperCase(line)
  IN \/ killMatch(up).num
     \/ ~HasNoise(up) /\ ~AllDigits(up) /\ ~includes(up, ELIMINATION)

\* the markers whose segment holds a productive line, in ascending order
RECURSIVE AscendingSeq(_)
AscendingSeq(S) ==
  IF S = {} THEN <<>>
  ELSE LET m == CHOOSE x \in S : \A y \in S : x <= y
       IN <<m>> \o AscendingSeq(S \ {m})

ProductiveMarkers(L) ==
  AscendingSeq({m \in MarkersOf(L) :
                  \E i \in 1..Len(SegmentOf(L, m)) :
                    Productive(SegmentOf(L, m)[i])})

\* C13: a row is emitted for a marker exactly when its segment yields a
\* name or a kill value: every row has a player or a kill, and the rows'
\* places are the values of the markers with a productive segment, in order.
C13_RowsOnlyForProductiveSegments ==
  Parsed =>
    \A L \in {LinesOf(call.lines)} :
      LET prod == ProductiveMarkers(L)
      IN /\ \A k \in 1..Len(ret) :
              Len(ret[k].players) > 0 \/ Len(ret[k].kills) > 0
         /\ Len(ret) = Len(prod)
         /\ \A k \in 1..Len(ret) : ret[k].place = isPlaceLine(L[prod[k]])

\* a marker directly followed by a marker gave no row, a later one did
C13_Witness ==
  /\ Parsed
  /\ \E m \in MarkersOf(LinesOf(call.lines)) :
       /\ m + 1 \in MarkersOf(LinesOf(call.lines))
       /\ Len(ret) = 1
       /\ ret[1].place = isPlaceLine(LinesOf(call.lines)[m + 1])
       /\ ret[1].place # isPlaceLine(LinesOf(call.lines)[m])

First4(q) == SubSeq(q, 1, IF Len(q) < 4 THEN Len(q) ELSE 4)

\* the number of leading digits of a line
LeadingDigits(up) ==
  Cardinality({i \in 1..Len(up) : \A j \in 1..i : IsDigit(up[j])})

\* a line that reads "<digits> ELIMINATION" or "<digits> ELIMINATIONS" in
\* any case, with at most dmax digits before ELIMINATIONS and at most two
\* before ELIMINATION
KillForm(line, dmax) ==
  LET up   == toUpperCase(line)
      d    == LeadingDigits(up)
      word == dropLeadingSpace(SubSeq(up, d + 1, Len(up)))
  IN /\ d >= 1
     /\ d < Len(up) /\ IsSpace(up[d + 1])
     /\ \/ word = ELIMINATION /\ d <= 2
        \/ word = ELIMINATION \o <<"S">> /\ d <= dmax

KillFormNumber(line) ==
  DigitsToNumber(SubSeq(line, 1, LeadingDigits(line)))

\* the row index of a marker with a productive segment (0 when it has none)
RowOfMarker(L, m) ==
  LET prod == ProductiveMarkers(L)
      at   == {k \in 1..Len(prod) : prod[k] = m}
  IN IF at = {} THEN 0 ELSE CHOOSE k \in at : TRUE

\* the players of every row are the first four lines of its segment that
\* satisfy NW, and a marker without a row has no such line
PlayersAre(NW(_)) ==
  \A L \in {LinesOf(call.lines)} :
    \A m \in MarkersOf(L) :
      \A k \in {RowOfMarker(L, m)} :
        \A exp \in {First4(SelectSeq(SegmentOf(L, m), NW))} :
          /\ k = 0 => exp = <<>>
          /\ k # 0 => k <= Len(ret) /\ ret[k].players = exp
                        /\ Len(ret[k].players) <= 4

\* name-worthy as the claim words it
NameWorthyAsClaimed(line) ==
  /\ ~KillForm(line, Len(line))
  /\ ~HasNoise(toUpperCase(line))
  /\ ~AllDigits(line)

\* name-worthy: no ELIMINATION in the line, no noise token, not numeric
NameWorthy(line) ==
  /\ ~includes(toUpperCase(line), ELIMINATION)
  /\ ~HasNoise(toUpperCase(line))
  /\ ~AllDigits(line)

\* C14 as stated: a segment line that is not a kill line, holds no noise
\* token and is not purely numeric is a candidate name; a row's players are
\* the first four such lines of its segment, in order.
C14_FirstFourNames_AsStated ==
  Parsed => PlayersAre(NameWorthyAsClaimed)

\* C14 amended: a segment line that does not contain ELIMINATION, holds no
\* noise token and is not purely numeric is a candidate name; a row's
\* players are the first four such lines of its segment, in order, and
\* further ones are ignored.
C14_FirstFourNames ==
  Parsed => PlayersAre(NameWorthy)

\* a segment of five name-worthy lines gave a row of the first four
C14_Witness ==
  /\ Parsed
  /\ Len(call.lines) = 6
  /\ \A i \in 2..6 : NameWorthy(call.lines[i])
  /\ Len(ret) = 1
  /\ ret[1].players = SubSeq(call.lines, 2, 5)
  /\ call.lines[6] # call.lines[5]

RECURSIVE IsSubseq(_, _)
IsSubseq(a, b) ==
  \/ a = <<>>
  \/ /\ b # <<>>
     /\ \/ Head(a) = Head(b) /\ IsSubseq(Tail(a), Tail(b))
        \/ IsSubseq(a, Tail(b))

RECURSIVE SumSeq(_)
SumSeq(q) == IF q = <<>> THEN 0 ELSE Head(q) + SumSeq(Tail(q))

\* the numbers of the kill lines of a segment, in order
KillNumbers(seg, dmax) ==
  LET ks == SelectSeq(seg, LAMBDA l : KillForm(l, dmax))
  IN [i \in 1..Len(ks) |-> KillFormNumber(ks[i])]

ScoredParsedRow ==
  call.fn = "scoreRow" /\ call.done /\ "lines" \in DOMAIN call

\* the kill lines (with at most dmax digits before ELIMINATIONS) of every
\* segment are in the kills of its row, in order, and are not players; the
\* kills of a scored row is the sum of its kill lines
KillsAre(dmax) ==
  /\ Parsed =>
       \A L \in {LinesOf(call.lines)} :
         \A m \in MarkersOf(L) :
           \A k \in {RowOfMarker(L, m)} :
             \A exp \in {KillNumbers(SegmentOf(L, m), dmax)} :
               /\ exp # <<>> =>
                    /\ k # 0 /\ k <= Len(ret)
                    /\ IsSubseq(exp, [i \in 1..Len(ret[k].kills) |->
                                        ret[k].kills[i].v])
               /\ (k # 0 /\ k <= Len(ret)) =>
                    \A p \in 1..Len(ret[k].players) :
                      ~KillForm(ret[k].players[p], dmax)
  /\ (ScoredParsedRow /\ ~ret.null) =>
       ret.kills = SumSeq(KillNumbers(Tail(call.lines), dmax))

C16_NormalizeIdempotent ==
  (call.fn = "normalizeForLines" /\ call.done)
    => normalizeForLines(ret) = ret

(***************************************************************************)
(* Specification of the scoring configuration: Init draws the stored       *)
(* scoring_json of one scrim; the settings form overwrites it and the      *)
(* request handlers load it                                                *)
(***************************************************************************)
JsonValues ==
  { Num(0 - 5), Num(0), Num(7), Num(50), Num(51), Num(200), Num(201),
    Num(9999), JsNull, JsBool(TRUE), JsStr(<<>>), JsStr(<<"a","b","c">>),
    JsStr(<<"1","2">>) }

JsonBlobs ==
  {Absent, Unparsable, Some(NoProps), Some(customScoringJson)}
    \cup {Some([p1 |-> v]) : v \in JsonValues}
    \cup {Some([p9plus |-> v]) : v \in JsonValues}
    \cup {Some([killPoints |-> v]) : v \in JsonValues}
    \cup {Some([kills |-> v]) : v \in JsonValues}
    \cup {Some([kill_points |-> v]) : v \in JsonValues}
    \cup {Some([killPoints |-> JsNull, kills |-> v]) : v \in JsonValues}
    \cup {Some([places |-> [k \in {"1"} |-> v]]) : v \in JsonValues}

\* values of a form field
FormValues ==
  { JsStr(<<>>), JsStr(<<"1","2">>), JsStr(<<"9","9","9","9">>),
    JsStr(<<"-","5">>), JsStr(<<"a","b","c">>) }

\* bodies of the settings form: no scoring field at all, or p1 and one of
\* killPoints / kill_points
FormBodies ==
  {NoProps}
    \cup {[p1 |-> a, killPoints |-> b] : a, b \in FormValues}
    \cup {[p1 |-> a, kill_points |-> b] : a, b \in FormValues}

\* req.body[k]
bodyField(body, k) == IF k \in DOMAIN body THEN body[k] ELSE NotANumber

\* the scoringCfg object the settings handler builds from the form
scoringCfgOf(body) ==
  LET def == defaultScoring
      kp  == IF ~Nullish(bodyField(body, "killPoints"))
               THEN bodyField(body, "killPoints")
               ELSE bodyField(body, "kill_points")
  IN [killPoints |-> clampInt(kp, 0, 50, def.killPoints),
      p1 |-> clampInt(bodyField(body, "p1"), 0, 200, def.p1),
      p2 |-> clampInt(bodyField(body, "p2"), 0, 200, def.p2),
      p3 |-> clampInt(bodyField(body, "p3"), 0, 200, def.p3),
      p4 |-> clampInt(bodyField(body, "p4"), 0, 200, def.p4),
      p5 |-> clampInt(bodyField(body, "p5"), 0, 200, def.p5),
      p6 |-> clampInt(bodyField(body, "p6"), 0, 200, def.p6),
      p7 |-> clampInt(bodyField(body, "p7"), 0, 200, def.p7),
      p8 |-> clampInt(bodyField(body, "p8"), 0, 200, def.p8),
      p9plus |-> clampInt(bodyField(body, "p9plus"), 0, 200, def.p9plus)]

\* JSON.stringify(scoringCfg) as JSON.parse reads it back: an object of
\* numbers
storedScoring(cfg) == Some([k \in DOMAIN cfg |-> Num(cfg[k])])

InitConfig ==
  /\ call = [fn |-> "none", done |-> FALSE]
  /\ ret = NullResult
  /\ teams = {}
  /\ scrim_results = {}
  /\ scrim_results_manual = {}
  /\ scoring_json \in JsonBlobs
  /\ resp = NoView
  /\ matchSessions = <<>>
  /\ InitLobbyIdle

\* POST /scrims/:id/settings : q.setScoringJson.run(JSON.stringify(...))
PostSettings ==
  /\ \E body \in FormBodies :
       /\ call' = [fn |-> "postSettings", done |-> TRUE, body |-> body]
       /\ scoring_json' = storedScoring(scoringCfgOf(body))
  /\ UNCHANGED <<lobbyVars,
                 ret, teams, scrim_results, scrim_results_manual, resp,
                 matchSessions>>

\* getScrimScoring(scrim) as the request handlers call it
LoadScoring ==
  /\ call' = [fn |-> "getScrimScoring", done |-> TRUE, raw |-> scoring_json]
  /\ ret' = getScrimScoring(scoring_json)
  /\ UNCHANGED dbVars

NextConfig ==
  \/ PostSettings
  \/ LoadScoring

SpecConfig == InitConfig /\ [][NextConfig]_vars

(***************************************************************************)
(* Properties of the scoring configuration                                 *)
(***************************************************************************)
ScoringKeys ==
  {"killPoints", "p1", "p2", "p3", "p4", "p5", "p6", "p7", "p8", "p9plus"}

UpperBoundOf(k) == IF k = "killPoints" THEN 50 ELSE 200

\* a value that is not a number and does not spell one
NonNumeric(v) ==
  /\ ~v.num
  /\ "str" \in DOMAIN v => (v.str = <<>> \/ ~JsNumber(v).num)

\* what the claim says about field k of the stored object
FieldAsClaimed(obj, k, got) ==
  /\ k \notin DOMAIN obj => got = defaultScoring[k]
  /\ (k \in DOMAIN obj /\ obj[k].num) =>
       got = (IF obj[k].v < 0 THEN 0
              ELSE IF obj[k].v > UpperBoundOf(k) THEN UpperBoundOf(k)
              ELSE obj[k].v)
  /\ (k \in DOMAIN obj /\ NonNumeric(obj[k])) => got = defaultScoring[k]

Loaded == call.fn = "getScrimScoring" /\ call.done

\* C17: loading the scoring config always returns a complete config with
\* killPoints in 0..50 and p1..p9plus in 0..200; a value out of range is
\* clamped to the nearest bound, a missing or non-numeric field takes its
\* default, and an absent, null or unparsable blob gives the defaults.
C17_ScoringLoadClamped ==
  Loaded =>
    /\ DOMAIN ret = ScoringKeys
    /\ \A k \in ScoringKeys : 0 <= ret[k] /\ ret[k] <= UpperBoundOf(k)
    /\ (~call.raw.present \/ call.raw = Unparsable
          \/ call.raw = Some(NoProps)) => ret = defaultScoring
    /\ ("obj" \in DOMAIN call.raw
          /\ DOMAIN call.raw.obj \subseteq ScoringKeys)
         => \A k \in ScoringKeys : FieldAsClaimed(call.raw.obj, k, ret[k])

(***************************************************************************)
(* Automated results table: q.saveResult                                   *)
(***************************************************************************)
\* PRIMARY KEY (scrim_id, game, team_tag)
sameKey(a, b) ==
  a.scrim_id = b.scrim_id /\ a.game = b.game /\ a.team_tag = b.team_tag

\* saveResult adding kills and points to the row it finds
saveResult_Adds(table, row) ==
  IF \E r \in table : sameKey(r, row)
    THEN {IF sameKey(r, row)
            THEN [r EXCEPT !.place = row.place,
                           !.kills = r.kills + row.kills,
                           !.points = r.points + row.points]
            ELSE r : r \in table}
    ELSE table \cup {row}

\* INSERT ... ON CONFLICT(scrim_id, game, team_tag) DO UPDATE SET
\* place=excluded.place, kills=excluded.kills, points=excluded.points
saveResult(table, row) ==
  IF \E r \in table : sameKey(r, row)
    THEN {IF sameKey(r, row)
            THEN [r EXCEPT !.place = row.place, !.kills = row.kills,
                           !.points = row.points]
            ELSE r : r \in table}
    ELSE table \cup {row}

MaxWrites == 3

UpsertKeys ==
  { [scrim_id |-> 1, game |-> 1, team_tag |-> <<"D","S">>],
    [scrim_id |-> 2, game |-> 1, team_tag |-> <<"D","S">>],
    [scrim_id |-> 1, game |-> 1, team_tag |-> <<"X","Y">>] }

UpsertRows ==
  {[scrim_id |-> k.scrim_id, game |-> k.game, team_tag |-> k.team_tag,
    place |-> v.place, kills |-> v.kills,
    points |-> totalPoints(v.place, Num(v.kills), Some(defaultScoring))] :
     k \in UpsertKeys, v \in RowValues}

\* the table as an earlier run left it, and the rows (batch) that the
\* processing of one set of screenshots writes; the same batch is written a
\* second time when the screenshots are processed again
InitUpsert ==
  /\ \E t \in {{}} \cup {{r} : r \in UpsertRows},
        b \in SeqsUpTo(UpsertRows, MaxWrites) \ {<<>>} :
       /\ scrim_results = t
       /\ call = [fn |-> "saveResult", done |-> FALSE, batch |-> b,
                  pos |-> 1, pass |-> 1, first |-> t]
  /\ ret = NullResult
  /\ teams = {}
  /\ scrim_results_manual = {}
  /\ scoring_json = Absent
  /\ resp = NoView
  /\ matchSessions = <<>>
  /\ InitLobbyIdle

\* one q.saveResult.run(...) of the batch
SaveResult ==
  /\ call.fn = "saveResult" /\ ~call.done
  /\ scrim_results' = saveResult(scrim_results, call.batch[call.pos])
  /\ call' =
       IF call.pos < Len(call.batch)
         THEN [call EXCEPT !.pos = call.pos + 1]
       ELSE IF call.pass = 1
         THEN [call EXCEPT !.pos = 1, !.pass = 2,
                           !.first = scrim_results']
       ELSE [call EXCEPT !.pos = call.pos + 1, !.done = TRUE]
  /\ UNCHANGED <<lobbyVars,
                 ret, teams, scrim_results_manual, scoring_json, resp,
                 matchSessions>>

NextUpsert == SaveResult

SpecUpsert == InitUpsert /\ [][NextUpsert]_vars

\* the rows written so far, in order
Written ==
  IF call.pass = 1 THEN SubSeq(call.batch, 1, call.pos - 1)
  ELSE call.batch \o SubSeq(call.batch, 1, call.pos - 1)

\* C18: the automated results hold at most one record per (scrim_id, game,
\* team_tag), the record of a key is the last one written for it (values
\* replaced, not added), and writing the same batch a second time leaves
\* the table as the first writing left it.
C18_UpsertLastWriteWins ==
  call.fn = "saveResult" =>
    /\ \A a, b \in scrim_results : sameKey(a, b) => a = b
    /\ \A i \in 1..Len(Written) :
         (\A j \in (i + 1)..Len(Written) : ~sameKey(Written[i], Written[j]))
           => Written[i] \in scrim_results
    /\ call.done => scrim_results = call.first

\* a key stored before and written twice with different values holds the
\* last value after the batch was written a second time
C18_Witness ==
  /\ call.fn = "saveResult" /\ call.done
  /\ Len(call.batch) >= 2
  /\ sameKey(call.batch[1], call.batch[2])
  /\ call.batch[1] # call.batch[2]
  /\ call.batch[2] \in scrim_results
  /\ Cardinality(scrim_results) >= 1

(***************************************************************************)
(* Stored results of the scrims: the "!match" messages of the bot and the  *)
(* staff requests of the panel                                             *)
(***************************************************************************)
\* the outcome of ocrImageFromUrl for one image: the recognised text, or a
\* rejected promise
OcrFail == [ok |-> FALSE]
OcrText(t) == [ok |-> TRUE, text |-> t]

\* buildRowsFromOCR(text): the rows { place, players, kills } of the text,
\* which goes through the normalizer and then the row parser
buildRowsFromOCR(text) == parseScoreboardRows(normalizeForLines(text))

\* getRankPointsForScrim(scrim): the scoring configuration of the scrim
getRankPointsForScrim(sj) == Some(getScrimScoring(sj))

\* q.teamsByScrim.all(scrimId)
teamsOfScrim(tms, scrimId) ==
  teamsByScrim({t \in tms : t.scrim_id = scrimId})

\* the loop over the rows of one image: st holds the table and the counter
\* saved
RECURSIVE rowSaveLoop(_, _, _, _, _, _, _)
rowSaveLoop(rows, k, scrimId, game, tms, rankMap, st) ==
  IF k > Len(rows) THEN st
  ELSE LET scored == scoreRow([place |-> rows[k].place,
                               players |-> rows[k].players,
                               kills |-> rows[k].kills,
                               scrimId |-> scrimId, game |-> game],
                              tms, rankMap)
           row    == [scrim_id |-> scored.scrim_id, game |-> scored.game,
                      team_tag |-> scored.team_tag, place |-> scored.place,
                      kills |-> scored.kills, points |-> scored.points]
       IN rowSaveLoop(rows, k + 1, scrimId, game, tms, rankMap,
            IF scored.null THEN st
            ELSE [st EXCEPT !.table = saveResult(st.table, row),
                            !.saved = st.saved + 1])

\* the attachment is pushed when its url ends in an image extension or its
\* content type begins with image/
isImageAttachment(a) ==
  a.ext \in {"png", "jpg", "jpeg", "webp"} \/ a.imageType

\* req.body[`kills_${place}`] || 0, Number(...) || 0, Math.trunc, Math.max(0, .)
manualKills(v) ==
  LET given  == IF v = NotANumber \/ v = JsStr(<<>>) \/ v = Num(0)
                  THEN Num(0) ELSE v
      asNum  == JsNumber(given)
  IN IF ~asNum.num THEN 0 ELSE IF asNum.v < 0 THEN 0 ELSE asNum.v

ManualPlaces == 20

\* the loop "for (let place = 1; place <= 20; place++)" of the manual save
RECURSIVE manualLoop(_, _, _, _, _, _, _)
manualLoop(place, body, scrimId, gameIdx, validTags, scoring, table) ==
  IF place > ManualPlaces THEN table
  ELSE LET f    == IF place \in DOMAIN body THEN body[place]
                   ELSE [team |-> <<>>, kills |-> NotANumber]
           tag  == trim(f.team)
           kills == manualKills(f.kills)
           pts  == placementPoints(place, Some(scoring))
                     + (kills * scoring.killPoints)
           row  == [scrim_id |-> scrimId, game |-> gameIdx, team_tag |-> tag,
                    place |-> place, kills |-> kills, points |-> pts]
       IN manualLoop(place + 1, body, scrimId, gameIdx, validTags, scoring,
            IF tag = <<>> \/ tag \notin validTags THEN table
            ELSE saveResult(table, row))

(***************************************************************************)
(* Specification of the store: every handler is one action                 *)
(***************************************************************************)
MaxImages == 2

Channels == {"c1"}

\* the (scrim, game) pairs the requests of the model name
StoreKeys == { <<1, 1>>, <<1, 2>>, <<2, 1>> }

StoreTeams ==
  { [scrim_id |-> 1, slot |-> 1, team_tag |-> <<"D","S">>],
    [scrim_id |-> 1, slot |-> 2, team_tag |-> <<"X","Y">>],
    [scrim_id |-> 2, slot |-> 1, team_tag |-> <<"D","S">>] }

\* texts the OCR returns: a scoreboard row of two DS players, and nothing
OcrTexts ==
  { joinLines(<< <<"1">>, <<"D","S"," ","A","l">>, <<"D","S"," ","B","o">>,
                 <<"2"," ">> \o ELIMINATION \o <<"S">> >>, <<"\n">>),
    <<>> }

OcrOutcomes == {OcrFail} \cup {OcrText(t) : t \in OcrTexts}

\* buildRowsFromOCR of each text of the pool, computed once
ocrRowsOf == [t \in OcrTexts |-> buildRowsFromOCR(t)]

\* the attachments of one message (none for a plain message)
AttachmentLists ==
  { <<>>,
    << [url |-> "a.png", ext |-> "png", imageType |-> TRUE] >>,
    << [url |-> "b", ext |-> "", imageType |-> TRUE] >>,
    << [url |-> "c.txt", ext |-> "txt", imageType |-> FALSE] >>,
    << [url |-> "c.txt", ext |-> "txt", imageType |-> FALSE],
       [url |-> "a.png", ext |-> "png", imageType |-> TRUE] >> }

\* bodies of the manual editor's form: place -> team_<place>, kills_<place>
ManualBodies ==
  { (1 :> [team |-> <<"D","S">>, kills |-> JsStr(<<"3">>)])
      @@ (2 :> [team |-> <<" ","X","Y"," ">>, kills |-> JsStr(<<>>)])
      @@ (3 :> [team |-> <<" ">>, kills |-> JsStr(<<"1">>)])
      @@ (21 :> [team |-> <<"X","Y">>, kills |-> JsStr(<<"1">>)]),
    (1 :> [team |-> <<"X","Y">>, kills |-> JsStr(<<"-","2">>)])
      @@ (2 :> [team |-> <<"D","S">>, kills |-> JsStr(<<"a","b","c">>)])
      @@ (3 :> [team |-> <<"Z","Z">>, kills |-> JsStr(<<"1">>)])
      @@ (4 :> [team |-> <<"d","s">>, kills |-> JsStr(<<"1">>)])
      @@ (20 :> [team |-> <<"D","S">>, kills |-> JsStr(<<"1">>)]) }

NoReply == [kind |-> "none"]
Reply(text) == [kind |-> "reply", text |-> text]
Redirect(scrimId) == [kind |-> "redirect", scrimId |-> scrimId]

InitStore ==
  /\ call = [fn |-> "none"]
  /\ ret = NullResult
  /\ teams = StoreTeams
  /\ scrim_results = {}
  /\ scrim_results_manual = {}
  /\ \E sj \in {Absent, storedScoring(customScoring)} :
       scoring_json = [s \in Scrims |-> IF s = 1 THEN sj ELSE Absent]
  /\ resp = NoReply
  /\ matchSessions = [c \in {} |-> 0]
  /\ InitLobbyIdle

\* the start of a match session: begin(channelKey, scrimId, game) sets the
\* entry of the channel to the scrim, the game and no images
StartMatchIn(chans) ==
  \E ch \in chans, scrimId \in {1}, game \in {1} :
    /\ matchSessions' =
         [c \in DOMAIN matchSessions \cup {ch} |->
            IF c = ch THEN [scrimId |-> scrimId, game |-> game,
                            images |-> <<>>]
            ELSE matchSessions[c]]
    /\ call' = [fn |-> "matchStart", channel |-> ch, scrimId |-> scrimId,
                game |-> game]
    /\ resp' = NoReply
    /\ UNCHANGED <<lobbyVars, ret, teams, scrim_results, scrim_results_manual,
                   scoring_json>>

StartMatch == StartMatchIn(Channels)

\* the collection putting the new images before the ones already held
CollectImagesIn_Prepends(chans) ==
  \E ch \in chans, atts \in AttachmentLists :
    LET urls == [k \in 1..Len(SelectSeq(atts, isImageAttachment)) |->
                   SelectSeq(atts, isImageAttachment)[k].url]
    IN /\ ch \in DOMAIN matchSessions
            => Len(matchSessions[ch].images) + Len(urls) <= MaxImages
       /\ matchSessions' =
            IF Len(atts) > 0 /\ ch \in DOMAIN matchSessions
              THEN [matchSessions EXCEPT ![ch].images = urls \o @]
              ELSE matchSessions
       /\ call' = [fn |-> "collect", channel |-> ch, attachments |-> atts]
       /\ resp' = NoReply
       /\ UNCHANGED <<lobbyVars,
                      ret, teams, scrim_results, scrim_results_manual,
                      scoring_json>>

\* messageCreate with a content other than "!match done": the image
\* attachments are pushed when the channel has a session
CollectImagesIn(chans) ==
  \E ch \in chans, atts \in AttachmentLists :
    LET urls == [k \in 1..Len(SelectSeq(atts, isImageAttachment)) |->
                   SelectSeq(atts, isImageAttachment)[k].url]
    IN /\ ch \in DOMAIN matchSessions
            => Len(matchSessions[ch].images) + Len(urls) <= MaxImages
       /\ matchSessions' =
            IF Len(atts) > 0 /\ ch \in DOMAIN matchSessions
              THEN [matchSessions EXCEPT ![ch].images = @ \o urls]
              ELSE matchSessions
       /\ call' = [fn |-> "collect", channel |-> ch, attachments |-> atts]
       /\ resp' = NoReply
       /\ UNCHANGED <<lobbyVars,
                      ret, teams, scrim_results, scrim_results_manual,
                      scoring_json>>

CollectImages == CollectImagesIn(Channels)

\* the loop over the images of a session: the await of an image whose OCR
\* fails throws out of the loop (thrown), with the rows of the images before
\* it already written
RECURSIVE imageLoop(_, _, _, _, _, _, _)
imageLoop(images, outcomes, i, session, tms, rankMap, st) ==
  IF i > Len(images) THEN st
  ELSE IF ~outcomes[i].ok THEN [st EXCEPT !.thrown = TRUE]
  ELSE imageLoop(images, outcomes, i + 1, session, tms, rankMap,
         [rowSaveLoop(ocrRowsOf[outcomes[i].text], 1,
                      session.scrimId, session.game, tms, rankMap, st)
            EXCEPT !.processed = Append(st.processed, i)])

NoSession == [scrimId |-> 0, game |-> 0, images |-> <<>>]

\* messageCreate with the content "!match done": the whole handler, the
\* outer catch included
MatchDoneIn(chans) ==
  \E ch \in chans :
    IF ch \notin DOMAIN matchSessions
      THEN /\ resp' = Reply("No active match")
           /\ call' = [fn |-> "matchDone", channel |-> ch,
                       session |-> NoSession, outcomes |-> <<>>,
                       processed |-> <<>>, saved |-> 0]
           /\ UNCHANGED <<lobbyVars,
                          ret, teams, scrim_results, scrim_results_manual,
                          scoring_json, matchSessions>>
      ELSE
        LET session == matchSessions[ch]
            n       == Len(session.images)
        IN /\ matchSessions' =
                [c \in DOMAIN matchSessions \ {ch} |-> matchSessions[c]]
           /\ \E outcomes \in [1..n -> OcrOutcomes],
                 rankMap \in
                   {getRankPointsForScrim(scoring_json[session.scrimId])},
                 tms \in {teamsOfScrim(teams, session.scrimId)} :
                \E st \in {imageLoop(session.images, outcomes, 1, session,
                                     tms, rankMap,
                                     [table |-> scrim_results, saved |-> 0,
                                      processed |-> <<>>,
                                      thrown |-> FALSE])} :
                   /\ scrim_results' = IF n = 0 THEN scrim_results
                                       ELSE st.table
                   /\ resp' = IF n = 0 THEN Reply("No screenshots uploaded")
                              ELSE IF st.thrown THEN Reply("OCR failed")
                              ELSE [kind |-> "saved",
                                    scrimId |-> session.scrimId,
                                    game |-> session.game,
                                    saved |-> st.saved]
                   /\ call' = [fn |-> "matchDone", channel |-> ch,
                               session |-> session, outcomes |-> outcomes,
                               processed |-> st.processed,
                               saved |-> st.saved]
           /\ UNCHANGED <<lobbyVars,
                          ret, teams, scrim_results_manual, scoring_json>>

MatchDone == MatchDoneIn(Channels)

\* q.clearManualGame leaving the rows of the game in the table
clearManualGame_Keeps(table, scrimId, gameIdx) == table

\* q.clearManualGame.run(scrimId, gameIdx)
clearManualGame(table, scrimId, gameIdx) ==
  {r \in table : ~(r.scrim_id = scrimId /\ r.game = gameIdx)}

\* POST /scrims/:id/results/game/:gameIdx/save
ManualSave ==
  \E key0 \in StoreKeys, body \in ManualBodies :
    \E scrimId \in {key0[1]}, gameIdx \in {key0[2]},
       tms \in {teamsOfScrim(teams, key0[1])},
       scoring \in {getScrimScoring(scoring_json[key0[1]])} :
    \E validTags \in
         {{trim(tms[k].team_tag) : k \in 1..Len(tms)} \ {<<>>}},
       cleared \in
         {clearManualGame(scrim_results_manual, scrimId, gameIdx)} :
       /\ scrim_results_manual' =
            manualLoop(1, body, scrimId, gameIdx, validTags, scoring, cleared)
       /\ call' = [fn |-> "manualSave", scrimId |-> scrimId,
                   gameIdx |-> gameIdx, body |-> body]
       /\ resp' = Redirect(scrimId)
       /\ UNCHANGED <<lobbyVars,
                      ret, teams, scrim_results, scoring_json, matchSessions>>

\* POST /scrims/:id/results/game/:gameIdx/delete
DeleteGame ==
  \E key0 \in StoreKeys :
    LET scrimId == key0[1]
        gameIdx == key0[2]
    IN /\ scrim_results_manual' =
            clearManualGame(scrim_results_manual, scrimId, gameIdx)
       /\ scrim_results' =
            {r \in scrim_results :
               ~(r.scrim_id = scrimId /\ r.game = gameIdx)}
       /\ call' = [fn |-> "deleteGame", scrimId |-> scrimId,
                   gameIdx |-> gameIdx]
       /\ resp' = Redirect(scrimId)
       /\ UNCHANGED <<lobbyVars, ret, teams, scoring_json, matchSessions>>

\* POST /scrims/:id/clear : the teams of the scrim are deleted (and the rows
\* of results and results_points, tables the model does not hold) and the
\* registration is closed
ClearScrimPanel ==
  \E scrimId \in Scrims :
    /\ teams' = {t \in teams : t.scrim_id # scrimId}
    /\ call' = [fn |-> "clearScrim", scrimId |-> scrimId, via |-> "panel"]
    /\ resp' = Redirect(0)
    /\ registration_open' = [registration_open EXCEPT ![scrimId] = FALSE]
    /\ UNCHANGED <<bans, memberRoles, requests, now, legacyVars, ret,
                   scrim_results, scrim_results_manual, scoring_json,
                   matchSessions>>

\* /scrim clear
ClearScrimCommand ==
  \E scrimId \in Scrims :
    /\ teams' = {t \in teams : t.scrim_id # scrimId}
    /\ call' = [fn |-> "clearScrim", scrimId |-> scrimId, via |-> "command"]
    /\ resp' = Reply("Scrim cleared (teams + results removed)")
    /\ registration_open' = [registration_open EXCEPT ![scrimId] = FALSE]
    /\ UNCHANGED <<bans, memberRoles, requests, now, legacyVars, ret,
                   scrim_results, scrim_results_manual, scoring_json,
                   matchSessions>>

NextStore ==
  \/ StartMatch
  \/ CollectImages
  \/ MatchDone
  \/ ManualSave
  \/ DeleteGame
  \/ ClearScrimPanel
  \/ ClearScrimCommand

SpecStore == InitStore /\ [][NextStore]_vars

(***************************************************************************)
(* Properties of the store                                                 *)
(***************************************************************************)
\* the indices of the images whose OCR succeeded, ascending
RECURSIVE OkImages(_, _)
OkImages(outcomes, i) ==
  IF i > Len(outcomes) THEN <<>>
  ELSE (IF outcomes[i].ok THEN <<i>> ELSE <<>>) \o OkImages(outcomes, i + 1)

\* C19: when "!match done" processes a batch of several screenshots and the
\* OCR of one of them fails, the failure is skipped for that screenshot only:
\* every screenshot whose OCR succeeded is processed and its rows written,
\* and the reply reports the count of rows written, not a failure.
C19_FailedScreenshotSkipped ==
  (/\ call.fn = "matchDone"
   /\ Len(call.session.images) > 1
   /\ \E i \in 1..Len(call.outcomes) : ~call.outcomes[i].ok)
    => /\ resp.kind = "saved"
       /\ resp.saved = call.saved
       /\ call.processed = OkImages(call.outcomes, 1)

manualOf(table, scrimId) == {r \in table : r.scrim_id = scrimId}

manualOfGame(table, scrimId, gameIdx) ==
  {r \in table : r.scrim_id = scrimId /\ r.game = gameIdx}

\* C20: a manual result record is created or overwritten only by the manual
\* save of its game; after the delete of a game no manual record of that
\* game remains; after a scrim is cleared (panel or /scrim clear) no manual
\* record of that scrim remains.
C20_ManualRecordLifecycle ==
  [][ /\ \A r \in scrim_results_manual' \ scrim_results_manual :
           /\ call'.fn = "manualSave"
           /\ call'.scrimId = r.scrim_id
           /\ call'.gameIdx = r.game
      /\ call'.fn = "deleteGame"
           => manualOfGame(scrim_results_manual', call'.scrimId,
                           call'.gameIdx) = {}
      /\ call'.fn = "clearScrim"
           => manualOf(scrim_results_manual', call'.scrimId) = {} ]_vars

\* the parts of C20 about the manual save and the delete of a game
ManualChangedOnlyByEditAndDelete ==
  [][ /\ \A r \in scrim_results_manual' \ scrim_results_manual :
           /\ call'.fn = "manualSave"
           /\ call'.scrimId = r.scrim_id
           /\ call'.gameIdx = r.game
      /\ \A r \in scrim_results_manual \ scrim_results_manual' :
           /\ call'.fn \in {"manualSave", "deleteGame"}
           /\ call'.scrimId = r.scrim_id
           /\ call'.gameIdx = r.game
      /\ call'.fn = "deleteGame"
           => manualOfGame(scrim_results_manual', call'.scrimId,
                           call'.gameIdx) = {} ]_vars

\* the kills a value of a kills field of the editor stands for: the number it
\* spells when that is not negative, else 0
KillsOfField(v) ==
  CASE v = JsStr(<<"3">>) -> 3
    [] v = JsStr(<<"1">>) -> 1
    [] OTHER -> 0

\* the tags of the teams registered in the scrim
TagsOfScrim(scrimId) ==
  {trim(t.team_tag) : t \in {x \in teams : x.scrim_id = scrimId}} \ {<<>>}

\* the placement slots 1..20 of the form whose tag is a registered team
SubmittedSlots(body, scrimId) ==
  {p \in DOMAIN body \cap (1..20) :
     trim(body[p].team) \in TagsOfScrim(scrimId)}

\* the manual record the claim gives slot p of the form
RecordOfSlot(body, scrimId, gameIdx, p) ==
  [scrim_id |-> scrimId, game |-> gameIdx, team_tag |-> trim(body[p].team),
   place |-> p, kills |-> KillsOfField(body[p].kills),
   points |-> totalPoints(p, Num(KillsOfField(body[p].kills)),
                          Some(getScrimScoring(scoring_json[scrimId])))]

\* the slots that are the last one of the form to name their tag
LastSlots(body, scrimId) ==
  {p \in SubmittedSlots(body, scrimId) :
     \A q \in SubmittedSlots(body, scrimId) :
       trim(body[q].team) = trim(body[p].team) => q <= p}

TwoChannels == {"c1", "c2"}

StartMatchTwo == StartMatchIn(TwoChannels)
CollectImagesTwo == CollectImagesIn(TwoChannels)
MatchDoneTwo == MatchDoneIn(TwoChannels)

NextMatch ==
  \/ StartMatchTwo
  \/ CollectImagesTwo
  \/ MatchDoneTwo

SpecMatch == InitStore /\ [][NextMatch]_vars

\* the urls of the image attachments of a message, in the order of the
\* message
RECURSIVE ImageUrls(_)
ImageUrls(atts) ==
  IF atts = <<>> THEN <<>>
  ELSE (IF Head(atts).imageType \/ Head(atts).ext \in {"png", "jpg", "jpeg",
                                                        "webp"}
          THEN <<Head(atts).url>> ELSE <<>>) \o ImageUrls(Tail(atts))

\* the sessions of the channels other than ch are the same before and after
\* the step
OthersKept(ch) ==
  /\ DOMAIN matchSessions' \ {ch} = DOMAIN matchSessions \ {ch}
  /\ \A c \in DOMAIN matchSessions \ {ch} :
       matchSessions'[c] = matchSessions[c]

\* C23: per channel, a start opens a session without images; while the
\* channel has a session every image attachment of a message is appended to
\* its images in arrival order; "!match done" hands exactly the images of the
\* session to processing and removes the entry of the channel; "!match done"
\* on a channel without a session answers that no match is active. The
\* sessions of other channels are not touched.
C23_SessionLifecycle ==
  [][ /\ call'.fn = "matchStart"
           => /\ call'.channel \in DOMAIN matchSessions'
              /\ matchSessions'[call'.channel].images = <<>>
              /\ OthersKept(call'.channel)
      /\ (call'.fn = "collect" /\ call'.channel \in DOMAIN matchSessions)
           => /\ call'.channel \in DOMAIN matchSessions'
              /\ matchSessions'[call'.channel] =
                   [matchSessions[call'.channel] EXCEPT
                      !.images = @ \o ImageUrls(call'.attachments)]
              /\ OthersKept(call'.channel)
      /\ (call'.fn = "collect" /\ call'.channel \notin DOMAIN matchSessions)
           => matchSessions' = matchSessions
      /\ (call'.fn = "matchDone" /\ call'.channel \in DOMAIN matchSessions)
           => /\ call'.session = matchSessions[call'.channel]
              /\ call'.channel \notin DOMAIN matchSessions'
              /\ resp' # Reply("No active match")
              /\ OthersKept(call'.channel)
      /\ (call'.fn = "matchDone" /\ call'.channel \notin DOMAIN matchSessions)
           => /\ resp' = Reply("No active match")
              /\ matchSessions' = matchSessions
              /\ scrim_results' = scrim_results ]_vars

\* "!match done" has taken two different images collected in two messages,
\* while the other channel still holds a session with an image
C23_Witness ==
  /\ call.fn = "matchDone"
  /\ call.session.images = <<"a.png", "b">>
  /\ call.channel \notin DOMAIN matchSessions
  /\ \E c \in DOMAIN matchSessions : Len(matchSessions[c].images) > 0

\* the rows parsed from the images the last "!match done" processed
RECURSIVE RowsOfImages(_, _)
RowsOfImages(outcomes, processed) ==
  IF processed = <<>> THEN <<>>
  ELSE ocrRowsOf[outcomes[Head(processed)].text]
         \o RowsOfImages(outcomes, Tail(processed))

\* C24: a parsed row without a qualifying team writes no record and raises
\* no error: every record a batch writes carries the scrim and game of the
\* session, the tag of a registered team of the scrim and the place of a
\* parsed row, the count of records written is at most the count of parsed
\* rows, and a batch whose OCR calls all succeed ends with the reply that
\* reports the count.
C24_NoMatchWritesNothing ==
  [][ (call'.fn = "matchDone" /\ call'.session # NoSession)
        => \A rows \in {RowsOfImages(call'.outcomes, call'.processed)} :
             /\ \A r \in scrim_results' \ scrim_results :
                  /\ r.scrim_id = call'.session.scrimId
                  /\ r.game = call'.session.game
                  /\ r.team_tag \in
                       {t.team_tag :
                          t \in {x \in teams :
                                   x.scrim_id = call'.session.scrimId}}
                  /\ \E k \in 1..Len(rows) : rows[k].place = r.place
             /\ call'.saved <= Len(rows)
             /\ Cardinality(scrim_results' \ scrim_results) <= call'.saved
             /\ (/\ call'.session.images # <<>>
                 /\ \A i \in 1..Len(call'.outcomes) : call'.outcomes[i].ok)
                  => /\ resp'.kind = "saved"
                     /\ resp'.saved = call'.saved ]_vars

\* a batch of one image with a parsed row that no team qualifies for: the
\* reply reports 0 rows and nothing is stored
C24_Witness ==
  /\ call.fn = "matchDone"
  /\ Len(call.processed) = 1
  /\ Len(RowsOfImages(call.outcomes, call.processed)) = 1
  /\ resp.kind = "saved"
  /\ resp.saved = 0
  /\ scrim_results = {}

(***************************************************************************)
(* Further properties of the merge and the leaderboard                     *)
(***************************************************************************)
\* C25: the effective result set holds exactly one record for every key
\* (game, trimmed upper-cased team_tag) of an automated or a manual record,
\* and no record of another key.
C25_OneRecordPerKey ==
  Shown =>
    LET M == resp.mergedRows
    IN /\ {key(M[i]) : i \in 1..Len(M)}
            = {key(r) : r \in scrim_results \cup scrim_results_manual}
       /\ \A i, j \in 1..Len(M) : key(M[i]) = key(M[j]) => i = j

\* C29: the kills of the leaderboard entries add up to the kills of the
\* effective records, and their points to the recomputed points of the
\* effective records.
C29_TotalsConserved ==
  Shown =>
    LET L == resp.leaderboard
        M == resp.mergedRows
        sc == resp.scoring
    IN /\ SumF([j \in 1..Len(L) |-> L[j].kills], 1..Len(L))
            = SumF([i \in 1..Len(M) |-> M[i].kills], 1..Len(M))
       /\ SumF([j \in 1..Len(L) |-> L[j].points], 1..Len(L))
            = SumF([i \in 1..Len(M) |->
                      placementPoints(M[i].place, Some(sc))
                        + (M[i].kills * sc.killPoints)], 1..Len(M))

(***************************************************************************)
(* Registration of teams: POST /register/:scrimId, the drop button, the    *)
(* staff removals, the bans and the registration toggle                    *)
(***************************************************************************)
MaxRegSlots == 2
MaxInFlight == 2
MaxTime == 1

\* the scrim the requests of the model name, with its slot range and a ban
\* role configured
RegScrim == CHOOSE s \in Scrims : \A o \in Scrims : s <= o
RegMinSlot == 2
RegMaxSlot == RegMinSlot + MaxRegSlots - 1

\* the users that register, and the owner of a team that is there from the
\* start
RegUsers == {"u1", "u2"}
Filler == "u0"
BanTargets == {"u1"}

\* expires_at of a permanent ban (NULL)
NullTime == 0 - 1

\* the value getNextFreeSlot returns for null
NoFreeSlot == 0 - 1

\* getNextFreeSlot(scrimId, minSlot, maxSlot)
getNextFreeSlot_Highest(tms, scrimId, minSlot, maxSlot) ==
  LET used == {t.slot : t \in {x \in tms : x.scrim_id = scrimId}}
      free == {sl \in minSlot..maxSlot : sl \notin used}
  IN IF free = {} THEN NoFreeSlot
     ELSE CHOOSE sl \in free : \A o \in free : o <= sl

getNextFreeSlot(tms, scrimId, minSlot, maxSlot) ==
  LET used == {t.slot : t \in {x \in tms : x.scrim_id = scrimId}}
      free == {sl \in minSlot..maxSlot : sl \notin used}
  IN IF free = {} THEN NoFreeSlot
     ELSE CHOOSE sl \in free : \A o \in free : sl <= o

\* q.banByUser.get(guild, userId): the rows of the user (at most one)
banByUser(B, userId) == {b \in B : b.user_id = userId}

\* q.banUpsert.run(guild, userId, reason, expiresAt)
banUpsert(B, userId, expiresAt) ==
  {b \in B : b.user_id # userId}
    \cup {[user_id |-> userId, expires_at |-> expiresAt]}

\* isBanActive(ban) at the time t
isBanActive(ban, t) == ban.expires_at = NullTime \/ ban.expires_at > t

\* autoUnbanIfExpired that deletes no row
autoUnbanIfExpired_Keeps(B, userId, t) == B

\* the ban rows after the synchronous part of autoUnbanIfExpired
autoUnbanIfExpired(B, userId, t) ==
  {b \in B : ~(b.user_id = userId /\ b.expires_at # NullTime
                 /\ t >= b.expires_at)}

\* q.teamByUser.get(scrimId, userId)
teamByUser(tms, scrimId, userId) ==
  {t \in tms : t.scrim_id = scrimId /\ t.owner_user_id = userId}

\* q.insertTeam.run: the row is refused when it breaks UNIQUE(scrim_id, slot)
\* or UNIQUE(scrim_id, owner_user_id)
insertAllowed(tms, row) ==
  \A t \in tms :
    t.scrim_id = row.scrim_id
      => (t.slot # row.slot /\ t.owner_user_id # row.owner_user_id)

TagOfUser(u) == IF u = "u1" THEN <<"D","S">> ELSE <<"X","Y">>

TeamRow(scrimId, slot, userId) ==
  [scrim_id |-> scrimId, slot |-> slot, owner_user_id |-> userId,
   team_tag |-> TagOfUser(userId)]

Page(kind, slot) == [kind |-> kind, slot |-> slot]

regRest == <<legacyVars, ret, scrim_results, scrim_results_manual,
             scoring_json, matchSessions>>

InitReg ==
  /\ call = [fn |-> "none", user |-> ""]
  /\ ret = NullResult
  /\ teams \in { {}, {TeamRow(RegScrim, RegMaxSlot, Filler)} }
  /\ scrim_results = {}
  /\ scrim_results_manual = {}
  /\ scoring_json = [s \in Scrims |-> Absent]
  /\ resp = Page("none", NoFreeSlot)
  /\ matchSessions = [c \in {} |-> 0]
  /\ registration_open = [s \in Scrims |-> s = RegScrim]
  /\ bans = {}
  /\ memberRoles = {}
  /\ requests = EmptyBag
  /\ now = 0
  /\ InitLegacy

\* registerInsert without the already-registered check and without the UNIQUE
\* constraints of the teams table
registerInsert_NoUnique(tms, userId) ==
  LET slot == getNextFreeSlot(tms, RegScrim, RegMinSlot, RegMaxSlot)
      row  == TeamRow(RegScrim, slot, userId)
  IN IF slot = NoFreeSlot \/ slot = 0
       THEN [teams |-> tms, page |-> Page("Full", NoFreeSlot)]
     ELSE [teams |-> tms \cup {row}, page |-> Page("Registered", slot)]

\* the last part of POST /register/:scrimId, which runs without an await:
\* already registered, next free slot, insert
registerInsert(tms, userId) ==
  LET existing == teamByUser(tms, RegScrim, userId)
      slot     == getNextFreeSlot(tms, RegScrim, RegMinSlot, RegMaxSlot)
      row      == TeamRow(RegScrim, slot, userId)
  IN IF existing # {}
       THEN [teams |-> tms,
             page |-> Page("Already", (CHOOSE t \in existing : TRUE).slot)]
     ELSE IF slot = NoFreeSlot \/ slot = 0
       THEN [teams |-> tms, page |-> Page("Full", NoFreeSlot)]
     ELSE IF ~insertAllowed(tms, row)
       THEN [teams |-> tms, page |-> Page("Error", NoFreeSlot)]
     ELSE [teams |-> tms \cup {row}, page |-> Page("Registered", slot)]

\* a request that is waiting at an await; requests is the bag of them
Request(kind, user, pc) == [kind |-> kind, user |-> user, pc |-> pc]

Waiting == BagToSet(requests)

Room == BagCardinality(requests) < MaxInFlight

Pending == Page("pending", NoFreeSlot)

\* POST /register/:scrimId up to its first await that yields: the closed
\* check on the scrim row read at the start, autoUnbanIfExpired up to its
\* Discord calls, and the ban check when autoUnbanIfExpired returned at once
RegisterBegin ==
  \E u \in RegUsers :
    /\ Room
    /\ call' = [fn |-> "register", user |-> u]
    /\ UNCHANGED <<teams, registration_open, memberRoles, now, regRest>>
    /\ IF ~registration_open[RegScrim]
         THEN /\ resp' = Page("Closed", NoFreeSlot)
              /\ UNCHANGED <<bans, requests>>
       ELSE IF autoUnbanIfExpired(bans, u, now) # bans
         THEN /\ bans' = autoUnbanIfExpired(bans, u, now)
              /\ requests' = requests
                   (+) SetToBag({Request("register", u, "unban")})
              /\ resp' = Pending
       ELSE IF \E b \in banByUser(bans, u) : isBanActive(b, now)
         THEN /\ resp' = Page("Banned", NoFreeSlot)
              /\ UNCHANGED <<bans, requests>>
       ELSE /\ requests' = requests
                 (+) SetToBag({Request("register", u, "role")})
            /\ resp' = Pending
            /\ UNCHANGED bans

\* the Discord calls of autoUnbanIfExpired have ended (the ban role was
\* removed, or a call failed), then the ban check on the rows as they are now
RegisterAfterUnban ==
  \E r \in Waiting :
    /\ r.kind = "register" /\ r.pc = "unban"
    /\ call' = [fn |-> "register", user |-> r.user]
    /\ \E removed \in BOOLEAN :
         memberRoles' = IF removed THEN memberRoles \ {r.user}
                        ELSE memberRoles
    /\ UNCHANGED <<teams, registration_open, bans, now, regRest>>
    /\ IF \E b \in banByUser(bans, r.user) : isBanActive(b, now)
         THEN /\ resp' = Page("Banned", NoFreeSlot)
              /\ requests' = requests (-) SetToBag({r})
         ELSE /\ resp' = Pending
              /\ requests' = (requests (-) SetToBag({r}))
                   (+) SetToBag({[r EXCEPT !.pc = "role"]})

\* the member fetch of the ban role check has ended (fetched, or failed and
\* caught), then the checks and the insert that follow without an await; the
\* role and list updates between the insert and the Registered page write
\* none of the tables
RegisterAfterRoleCheck ==
  \E r \in Waiting :
    /\ r.kind = "register" /\ r.pc = "role"
    /\ call' = [fn |-> "register", user |-> r.user]
    /\ requests' = requests (-) SetToBag({r})
    /\ UNCHANGED <<registration_open, bans, memberRoles, now, regRest>>
    /\ \E fetched \in BOOLEAN :
         IF fetched /\ r.user \in memberRoles
           THEN /\ resp' = Page("Banned", NoFreeSlot)
                /\ UNCHANGED teams
         ELSE \E out \in {registerInsert(teams, r.user)} :
                /\ teams' = out.teams
                /\ resp' = out.page

\* the drop button of a team owner (the confirmation phase is open)
Drop ==
  \E u \in RegUsers :
    /\ teamByUser(teams, RegScrim, u) # {}
    /\ teams' = teams \ teamByUser(teams, RegScrim, u)
    /\ call' = [fn |-> "drop", user |-> u]
    /\ resp' = Page("dropped", NoFreeSlot)
    /\ UNCHANGED <<regVars, regRest>>

\* staff removal of the team of a slot (rmteam select, panel team delete)
StaffRemove ==
  \E slot \in RegMinSlot..RegMaxSlot :
    /\ teams' = {t \in teams : ~(t.scrim_id = RegScrim /\ t.slot = slot)}
    /\ call' = [fn |-> "rmteam", user |-> ""]
    /\ resp' = Page("removed", slot)
    /\ UNCHANGED <<regVars, regRest>>

\* /scrim reg open|close and the panel's toggle
ToggleReg ==
  /\ registration_open' =
       [registration_open EXCEPT ![RegScrim] = ~registration_open[RegScrim]]
  /\ call' = [fn |-> "toggleReg", user |-> ""]
  /\ resp' = Page("toggled", NoFreeSlot)
  /\ UNCHANGED <<teams, bans, memberRoles, requests, now, regRest>>

\* expiresAt of a new ban: permanent, or the shortest ban from now
BanExpiries == {NullTime, now + 1}

\* POST /scrims/:id/team/:teamId/ban up to its first await: the ban row
BanTeamBegin ==
  \E u \in BanTargets, expiresAt \in BanExpiries :
    /\ Room
    /\ teamByUser(teams, RegScrim, u) # {}
    /\ bans' = banUpsert(bans, u, expiresAt)
    /\ requests' = requests (+) SetToBag({Request("banTeam", u, "role")})
    /\ call' = [fn |-> "banTeam", user |-> u]
    /\ resp' = Pending
    /\ UNCHANGED <<teams, registration_open, memberRoles, now, regRest>>

\* /scrim ban up to its first await: the ban row
BanCommandBegin ==
  \E u \in BanTargets, expiresAt \in BanExpiries :
    /\ Room
    /\ bans' = banUpsert(bans, u, expiresAt)
    /\ requests' = requests
         (+) SetToBag({Request("banCommand", u, "role")})
    /\ call' = [fn |-> "banCommand", user |-> u]
    /\ resp' = Pending
    /\ UNCHANGED <<teams, registration_open, memberRoles, now, regRest>>

\* the ban role is given, or a Discord call failed and was caught
BanRoleAdd ==
  \E r \in Waiting, added \in BOOLEAN :
    /\ r.kind \in {"banTeam", "banCommand"} /\ r.pc = "role"
    /\ memberRoles' = IF added THEN memberRoles \cup {r.user} ELSE memberRoles
    /\ call' = [fn |-> r.kind, user |-> r.user]
    /\ IF r.kind = "banTeam"
         THEN /\ requests' = (requests (-) SetToBag({r}))
                   (+) SetToBag({[r EXCEPT !.pc = "remove"]})
              /\ resp' = Pending
         ELSE /\ requests' = requests (-) SetToBag({r})
              /\ resp' = Page("banned", NoFreeSlot)
    /\ UNCHANGED <<teams, registration_open, bans, now, regRest>>

\* the end of the panel's ban: q.removeTeamByUser and the redirect
BanTeamRemove ==
  \E r \in Waiting :
    /\ r.kind = "banTeam" /\ r.pc = "remove"
    /\ teams' = teams \ teamByUser(teams, RegScrim, r.user)
    /\ requests' = requests (-) SetToBag({r})
    /\ call' = [fn |-> "banTeam", user |-> r.user]
    /\ resp' = Page("banned", NoFreeSlot)
    /\ UNCHANGED <<registration_open, bans, memberRoles, now, regRest>>

\* time passes to the next expiry; the shortest ban lasts a day, so no
\* request stays at an await across it
Tick ==
  /\ requests = EmptyBag
  /\ now < MaxTime
  /\ now' = now + 1
  /\ call' = [fn |-> "tick", user |-> ""]
  /\ resp' = Page("none", NoFreeSlot)
  /\ UNCHANGED <<teams, registration_open, bans, memberRoles, requests,
                 regRest>>

NextReg ==
  \/ RegisterBegin
  \/ RegisterAfterUnban
  \/ RegisterAfterRoleCheck
  \/ Drop
  \/ StaffRemove
  \/ ToggleReg
  \/ BanTeamBegin
  \/ BanCommandBegin
  \/ BanRoleAdd
  \/ BanTeamRemove
  \/ ClearScrimPanel
  \/ ClearScrimCommand
  \/ Tick

SpecReg == InitReg /\ [][NextReg]_vars

\* C22: in every reachable state no two teams of a scrim hold the same slot
\* and no user owns more than one team of a scrim
C22_TeamsUnique ==
  \A t1 \in teams : \A t2 \in teams :
    (t1 # t2 /\ t1.scrim_id = t2.scrim_id)
      => (t1.slot # t2.slot /\ t1.owner_user_id # t2.owner_user_id)

\* a registration has just inserted a team while another registration of the
\* scrim waits at its await, and both users hold a team
C22_Witness ==
  /\ call.fn = "register" /\ resp.kind = "Registered"
  /\ \E r \in Waiting : r.kind = "register" /\ r.pc = "role"
  /\ teamByUser(teams, RegScrim, "u1") # {}
  /\ teamByUser(teams, RegScrim, "u2") # {}

\* C26: under any interleaving of a registration with the staff's closing of
\* the registration and bans, a team row is inserted only when, at the moment
\* of the insert, the registration of its scrim is open and its owner has no
\* active ban; a request rejected as closed or banned leaves the teams alone
C26_InsertOnlyWhenAllowed ==
  [][/\ \A t \in teams' \ teams :
          /\ registration_open[t.scrim_id]
          /\ \A b \in banByUser(bans, t.owner_user_id) : ~isBanActive(b, now)
     /\ (call'.fn = "register" /\ resp'.kind \in {"Closed", "Banned"})
          => teams' = teams]_vars

\* the slots of the range that no team of the scrim holds
FreeSlots(tms) ==
  {sl \in RegMinSlot..RegMaxSlot :
     \A t \in tms : t.scrim_id = RegScrim => t.slot # sl}

\* C27: a registration that inserts a team gives it the lowest slot of
\* [min_slot, max_slot] that no team of the scrim holds at that moment, and
\* that slot is the one its page shows; a request that reaches the slot search
\* when every slot is held is rejected as full; a request rejected as full
\* leaves the teams table unchanged
C27_LowestFreeSlot ==
  [][/\ \A t \in teams' \ teams :
          /\ t.slot \in FreeSlots(teams)
          /\ \A sl \in FreeSlots(teams) : t.slot <= sl
          /\ call'.fn = "register" /\ call'.user = t.owner_user_id
          /\ resp' = Page("Registered", t.slot)
     /\ (call'.fn = "register" /\ resp'.kind = "Full")
          => teams' = teams
     /\ \A r \in Waiting :
          (/\ r.kind = "register" /\ r.pc = "role"
           /\ CopiesIn(r, requests') < CopiesIn(r, requests)
           /\ resp'.kind # "Banned"
           /\ FreeSlots(teams) = {}
           /\ teamByUser(teams, RegScrim, r.user) = {})
            => (resp'.kind = "Full" /\ teams' = teams)]_vars

\* a team was just given the lowest slot while another registered user holds
\* a higher one: the lowest slot had been freed and is handed out again
C27_Witness ==
  /\ call.fn = "register"
  /\ resp = Page("Registered", RegMinSlot)
  /\ \E t \in teams :
       t.slot = RegMinSlot /\ t.owner_user_id = call.user
  /\ \E t \in teams :
       t.slot > RegMinSlot /\ t.owner_user_id \in RegUsers \ {call.user}

\* a step that begins a registration request of the user u
BeginStep(u) ==
  call'.fn = "register" /\ call'.user = u /\ requests \sqsubseteq requests'

ActiveBan(B, u, t) == \E b \in banByUser(B, u) : isBanActive(b, t)

ExpiredBan(B, u, t) == \E b \in banByUser(B, u) : ~isBanActive(b, t)

\* the end of the panel's ban: the owner has a ban row and no team
BanTeamDone ==
  (call'.fn = "banTeam" /\ resp'.kind = "banned")
    => /\ banByUser(bans', call'.user) # {}
       /\ teamByUser(teams', RegScrim, call'.user) = {}

\* a registration attempt made while the user's ban is active is rejected
\* and inserts nothing, at once or later
ActiveBanRejects ==
  \A u \in RegUsers :
    (BeginStep(u) /\ ActiveBan(bans, u, now))
      => /\ resp'.kind \in {"Closed", "Banned"}
         /\ teams' = teams
         /\ requests' = requests

MAX_TEAMS == MAX_SLOT - MIN_SLOT + 1

LegacyUsers == {"a", "b", "c"}

\* the index of the first team that satisfies Test, 0 when there is none
\* (Array.prototype.find)
FirstIndex(tms, Test(_)) ==
  IF \E i \in 1..Len(tms) : Test(tms[i])
    THEN CHOOSE i \in 1..Len(tms) :
           Test(tms[i]) /\ \A j \in 1..(i - 1) : ~Test(tms[j])
    ELSE 0

findTeamByUser(tms, userId) ==
  LET Test(t) == t.userId = userId /\ t.status # "removed"
  IN FirstIndex(tms, Test)

findTeamBySlotAndUser(tms, slot, userId) ==
  LET Test(t) == t.slot = slot /\ t.userId = userId /\ t.status # "removed"
  IN FirstIndex(tms, Test)

\* availableSlots.slotsInclude(slot)
slotsInclude(slots, slot) == \E i \in 1..Len(slots) : slots[i] = slot

\* the sequence with x put before the first element greater than x: push and
\* sort of a list that was sorted
RECURSIVE sortedWith(_, _)
sortedWith(slots, x) ==
  IF slots = <<>> THEN <<x>>
  ELSE IF x <= Head(slots) THEN <<x>> \o slots
  ELSE <<Head(slots)>> \o sortedWith(Tail(slots), x)

\* freeSlot(slot)
freeSlot(slots, slot) ==
  IF slotsInclude(slots, slot) THEN slots ELSE sortedWith(slots, slot)

InitLegacyLobby ==
  /\ call = [fn |-> "none", user |-> ""]
  /\ ret = NullResult
  /\ teams = {}
  /\ scrim_results = {}
  /\ scrim_results_manual = {}
  /\ scoring_json = [s \in Scrims |-> Absent]
  /\ resp = Page("none", NoFreeSlot)
  /\ matchSessions = [c \in {} |-> 0]
  /\ InitRegIdle
  /\ InitLegacy

legacyRest == <<teams, ret, scrim_results, scrim_results_manual,
                scoring_json, matchSessions, regVars>>

\* POST /register of index.js
LegacyRegister ==
  \E userId \in LegacyUsers :
    /\ call' = [fn |-> "legacyRegister", user |-> userId]
    /\ UNCHANGED legacyRest
    /\ IF Len(registeredTeams) >= MAX_TEAMS \/ Len(availableSlots) = 0
         THEN /\ resp' = Page("LobbyFull", NoFreeSlot)
              /\ UNCHANGED legacyVars
       ELSE IF findTeamByUser(registeredTeams, userId) # 0
         THEN /\ resp' = Page("Already",
                   registeredTeams[findTeamByUser(registeredTeams,
                                                  userId)].slot)
              /\ UNCHANGED legacyVars
       ELSE \* getNextSlot(): availableSlots is not empty here
            /\ availableSlots' = Tail(availableSlots)
            /\ registeredTeams' = Append(registeredTeams,
                 [slot |-> Head(availableSlots), userId |-> userId,
                  status |-> "pending"])
            /\ resp' = Page("Registered", Head(availableSlots))

\* the approve button of a registration
Approve ==
  \E slot \in MIN_SLOT..MAX_SLOT, userId \in LegacyUsers :
    \E i \in {findTeamBySlotAndUser(registeredTeams, slot, userId)} :
      /\ call' = [fn |-> "approve", user |-> userId]
      /\ UNCHANGED <<availableSlots, legacyRest>>
      /\ IF i = 0
           THEN /\ resp' = Page("NotFound", slot)
                /\ UNCHANGED registeredTeams
           ELSE /\ registeredTeams' =
                     [registeredTeams EXCEPT ![i].status = "accepted"]
                /\ resp' = Page("Approved", slot)

\* the remove button of a registration
Remove ==
  \E slot \in MIN_SLOT..MAX_SLOT, userId \in LegacyUsers :
    \E i \in {findTeamBySlotAndUser(registeredTeams, slot, userId)} :
      /\ call' = [fn |-> "remove", user |-> userId]
      /\ UNCHANGED legacyRest
      /\ IF i = 0
           THEN /\ resp' = Page("NotFound", slot)
                /\ UNCHANGED legacyVars
           ELSE /\ registeredTeams' =
                     [registeredTeams EXCEPT ![i].status = "removed"]
                /\ availableSlots' = freeSlot(availableSlots, slot)
                /\ resp' = Page("Removed", slot)

NextLegacy ==
  \/ LegacyRegister
  \/ Approve
  \/ Remove

SpecLegacy == InitLegacyLobby /\ [][NextLegacy]_vars

\* the slots of the teams that are not removed
HeldSlots(tms) ==
  {tms[i].slot : i \in {j \in 1..Len(tms) : tms[j].status # "removed"}}

ListedSlots(slots) == {slots[i] : i \in 1..Len(slots)}

\* the slots of the non-removed teams and availableSlots are disjoint and
\* together are exactly MIN_SLOT..MAX_SLOT
SlotsPartition ==
  /\ HeldSlots(registeredTeams) \cap ListedSlots(availableSlots) = {}
  /\ HeldSlots(registeredTeams) \cup ListedSlots(availableSlots)
       = MIN_SLOT..MAX_SLOT

\* C30: after any sequence of register, approve and remove, the slots of the
\* non-removed teams and availableSlots are disjoint and together are exactly
\* MIN_SLOT..MAX_SLOT, and a user with no non-removed team is refused as
\* lobby full only when no slot is available
C30_LegacyLobby ==
  [][/\ SlotsPartition'
     /\ (/\ call'.fn = "legacyRegister"
         /\ resp'.kind = "LobbyFull"
         /\ findTeamByUser(registeredTeams, call'.user) = 0)
          => Len(availableSlots) = 0]_vars
====
